---- MODULE Spec2Model ----
(***************************************************************************)
(* Model of the parse-and-deduplicate pipeline of the newsletter feed      *)
(* generator: parser.py (clean_title, extract_origin_blog_url,             *)
(* parse_newsletters, deduplicate_items, _hash_item) and                   *)
(* newsletter_feed/main.py (filter_cross_posted_items).                    *)
(*                                                                         *)
(* A Python str is a sequence of one-character strings (block ids and a   *)
(* few opaque texts are single multi-letter atoms); '' is <<>>.            *)
(***************************************************************************)
EXTENDS Integers, Sequences, FiniteSets, TLC

VARIABLES
    pc,              \* position of parse_newsletters: "start", "blocks", "done"
    newsletter,      \* the document being parsed
    stream,          \* the blocks of soup.find_all(...) consumed so far
    current_item,    \* parse_newsletters: current_item (NoItem is None)
    item_blocks,     \* parse_newsletters: item_blocks
    item_block_ids,  \* parse_newsletters: item_block_ids
    all_items,       \* parse_newsletters: all_items
    dpc,             \* position of deduplicate_items: "loop", "done"
    items,           \* deduplicate_items: the input items processed so far
    items_by_hash,   \* deduplicate_items: items_by_hash
    filtered_items,  \* deduplicate_items: filtered_items (noise log)
    unique_items,    \* deduplicate_items: the list returned
    fc,              \* filter_cross_posted_items: one call, its input and result
    tc,              \* clean_title: one call, its argument and result
    ev,              \* _generate_summary: one event block and the event made
    page_cache,      \* cache/newsletters: the urls whose page is stored
    parsed_cache,    \* cache/parsed: url -> the item list stored for it
    summary_cache,   \* cache/summaries: block_id -> the summary stored
    rn,              \* process_school: the run in progress
    hist,            \* the previous run's documents and the items of each
    cal,             \* generate_calendar_links: the event and the links made
    inv,             \* get_cache_files_for_block_ids: a call, the files chosen
    rl,              \* RateLimiter: its fields, the clock and the last request
    pg,              \* get_newsletter_links: the pagination loop
    lm               \* process_school: the limit applied to the filtered items

vars == <<pc, newsletter, stream, current_item, item_blocks, item_block_ids,
          all_items, dpc, items, items_by_hash, filtered_items, unique_items,
          fc, tc, ev, page_cache, parsed_cache, summary_cache, rn, hist,
          cal, inv, rl, pg, lm>>

parseVars == <<pc, newsletter, stream, current_item, item_blocks,
               item_block_ids, all_items>>
dedupVars == <<dpc, items, items_by_hash, filtered_items, unique_items>>
auxVars == <<cal, inv, rl, pg, lm>>
callVars == <<fc, tc, ev, auxVars>>
runVars == <<page_cache, parsed_cache, summary_cache, rn, hist>>
coreVars == <<parseVars, dedupVars, fc, tc, ev, runVars>>

(***************************************************************************)
(* Bounds                                                                  *)
(***************************************************************************)
\* longest block stream of one newsletter
MaxBlocks == 3
\* longest input list of deduplicate_items
MaxItems == 3
\* longest input list of filter_cross_posted_items
MaxFilterItems == 2

(***************************************************************************)
(* Python values                                                           *)
(***************************************************************************)
\* None where a str is expected (never equal to a real string)
None == <<"<None>">>
\* None where a datetime is expected; dates are positive day numbers
NoDate == 0
\* block.find('img') found nothing
NoImg == <<"<no img>">>
\* current_item = None
NoItem == [none |-> TRUE]

Min(S) == CHOOSE x \in S : \A y \in S : x <= y
Max(S) == CHOOSE x \in S : \A y \in S : x >= y

(***************************************************************************)
(* str methods                                                             *)
(***************************************************************************)
IsSpace(c) == c \in {" ", "\n", "\t"}

RECURSIVE LStrip(_)
LStrip(s) ==
    IF s = <<>> THEN s
    ELSE IF IsSpace(Head(s)) THEN LStrip(Tail(s)) ELSE s

RECURSIVE RStrip(_)
RStrip(s) ==
    IF s = <<>> THEN s
    ELSE IF IsSpace(s[Len(s)]) THEN RStrip(SubSeq(s, 1, Len(s) - 1)) ELSE s

\* s.lstrip() in the place of s.strip()
Strip_LeftOnly(s) == LStrip(s)

\* s.strip()
Strip(s) == RStrip(LStrip(s))

\* re.sub(r'\s+', ' ', s)
CollapseWhitespace(s) ==
    LET marked == [i \in 1..Len(s) |->
                     IF ~IsSpace(s[i]) THEN s[i]
                     ELSE IF i > 1 /\ IsSpace(s[i - 1]) THEN "<rest of run>"
                     ELSE " "]
    IN  SelectSeq(marked, LAMBDA c : c # "<rest of run>")

\* s.split()
RECURSIVE Split(_)
Split(s) ==
    LET t == LStrip(s)
        sp == {i \in 1..Len(t) : IsSpace(t[i])}
        n == IF sp = {} THEN Len(t) + 1 ELSE Min(sp)
    IN  IF t = <<>> THEN <<>>
        ELSE <<SubSeq(t, 1, n - 1)>> \o Split(SubSeq(t, n, Len(t)))

\* sep.join(parts)
RECURSIVE Join(_, _)
Join(parts, sep) ==
    IF parts = <<>> THEN <<>>
    ELSE IF Len(parts) = 1 THEN parts[1]
    ELSE parts[1] \o sep \o Join(Tail(parts), sep)

\* s[:n]
Take(s, n) == SubSeq(s, 1, IF n < Len(s) THEN n ELSE Len(s))

\* s.rsplit(' ', 1)[0]
RSplitHead(s) ==
    LET sp == {i \in 1..Len(s) : s[i] = " "}
    IN  IF sp = {} THEN s ELSE SubSeq(s, 1, Max(sp) - 1)

\* p in s
Contains(s, p) ==
    \/ p = <<>>
    \/ \E i \in 1..(Len(s) - Len(p) + 1) :
          s[i] = p[1] /\ SubSeq(s, i, i + Len(p) - 1) = p

\* s.endswith(p)
EndsWith(s, p) ==
    Len(s) >= Len(p) /\ SubSeq(s, Len(s) - Len(p) + 1, Len(s)) = p

\* s.replace(old, new)
RECURSIVE Replace(_, _, _)
Replace(s, old, new) ==
    IF Len(s) < Len(old) THEN s
    ELSE IF SubSeq(s, 1, Len(old)) = old
         THEN new \o Replace(SubSeq(s, Len(old) + 1, Len(s)), old, new)
         ELSE <<Head(s)>> \o Replace(Tail(s), old, new)

(***************************************************************************)
(* clean_title                                                             *)
(***************************************************************************)
TitleLimit == 100

clean_title(title) ==
    IF title = <<>> THEN <<>>
    ELSE
      LET t1 == Strip(CollapseWhitespace(title))
          words == Split(t1)
          mid == Len(words) \div 2
          first_half == Join(SubSeq(words, 1, mid), <<" ">>)
          second_half == Join(SubSeq(words, mid + 1, Len(words)), <<" ">>)
          t2 == IF Len(words) % 2 = 0 /\ first_half = second_half
                THEN first_half ELSE t1
      IN  IF Len(t2) > TitleLimit
          THEN RSplitHead(Take(t2, TitleLimit)) \o <<".", ".", ".">>
          ELSE t2

(***************************************************************************)
(* parse_newsletters, newsletter documents                                 *)
(***************************************************************************)
SeparatorTypes == {"misc.separator", "signature"}

\* the dict literal of lines 249-257 and 264-272
NewItem(nl) ==
    [title |-> <<>>, block_id |-> <<>>, content |-> <<>>, images |-> <<>>,
     source_url |-> nl.url, source_title |-> nl.title, date |-> nl.date]

\* lines 238-241 / 312-315: first fragment with non-blank content
FallbackTitle(blocks) ==
    LET hit == {i \in 1..Len(blocks) :
                  /\ "content" \in DOMAIN blocks[i]
                  /\ Strip(blocks[i].content) # <<>>}
    IN  IF hit = {} THEN <<>>
        ELSE clean_title(Take(blocks[Min(hit)].content, TitleLimit))

\* lines 232-241 / 308-315: blocks, block_id and the fallback title
FinalizeItem(cur, blocks, ids) ==
    [title |-> IF cur.title # <<>> THEN cur.title ELSE FallbackTitle(blocks),
     block_id |-> Join(ids, <<"-">>),
     content |-> cur.content, images |-> cur.images,
     source_url |-> cur.source_url, source_title |-> cur.source_title,
     date |-> cur.date, blocks |-> blocks]

\* line 244: the separator's emission test
SeparatorEmits(fin, ids) == fin.title # <<>> /\ ids # <<>>

\* line 318: the end-of-stream emission test
EndEmits(fin) == fin.title # <<>> \/ fin.blocks # <<>>

\* lines 229-260: a misc.separator or signature block
SeparatorStep(nl, st) ==
    LET fin == FinalizeItem(st.current_item, st.item_blocks, st.item_block_ids)
        emit == /\ st.current_item # NoItem
                /\ st.item_blocks # <<>>
                /\ SeparatorEmits(fin, st.item_block_ids)
    IN  [current_item |-> NewItem(nl), item_blocks |-> <<>>,
         item_block_ids |-> <<>>,
         all_items |-> IF emit THEN Append(st.all_items, fin) ELSE st.all_items]

\* line 297
FullSizeImage(img_src) ==
    Replace(Replace(img_src, <<"/", "t", "h", "u", "m", "b", "s", "/">>, <<"/">>),
            <<"/", "t", "h", "u", "m", "b", "-">>, <<"/">>)

\* lines 277-278: every block that reaches this point records its id
RecordBlockId(ids, block) ==
    IF block.id # <<>> THEN Append(ids, block.id) ELSE ids

\* line 284 with the test dropped: every title block sets the title
TitleUnset_Always(cur) == TRUE

\* line 284: `if not current_item['title']`
TitleUnset(cur) == cur.title = <<>>

\* lines 262-304: any block that is neither header nor separator/signature
ContentStep(nl, st, block) ==
    LET fresh == st.current_item = NoItem
        cur == IF fresh THEN NewItem(nl) ELSE st.current_item
        blocks == IF fresh THEN <<>> ELSE st.item_blocks
        ids == RecordBlockId(IF fresh THEN <<>> ELSE st.item_block_ids, block)
        text == Strip(block.text)
        textual == [type |-> block.type, content |-> text, id |-> block.id]
    IN  CASE block.type = "text.title" ->
               [current_item |->
                   IF TitleUnset(cur)
                   THEN [cur EXCEPT !.title = clean_title(text)] ELSE cur,
                item_blocks |-> Append(blocks, textual),
                item_block_ids |-> ids, all_items |-> st.all_items]
          [] block.type \in {"text.paragraph", "items"} ->
               [current_item |-> cur,
                item_blocks |-> Append(blocks, textual),
                item_block_ids |-> ids, all_items |-> st.all_items]
          [] block.type = "image.single" /\ block.img # NoImg ->
               LET full == FullSizeImage(block.img)
               IN  [current_item |->
                       [cur EXCEPT !.images = Append(cur.images, full)],
                    item_blocks |->
                       Append(blocks, [type |-> block.type, url |-> full,
                                       id |-> block.id]),
                    item_block_ids |-> ids, all_items |-> st.all_items]
          [] OTHER ->
               [current_item |-> cur, item_blocks |-> blocks,
                item_block_ids |-> ids, all_items |-> st.all_items]

\* lines 225-229 with a header treated as one more separator
LoopBody_HeaderEndsItem(nl, st, block) ==
    IF block.type \in SeparatorTypes \cup {"header"} THEN SeparatorStep(nl, st)
    ELSE ContentStep(nl, st, block)

\* lines 220-304: one iteration of `for block in blocks`
LoopBody(nl, st, block) ==
    IF block.type = "header" THEN st
    ELSE IF block.type \in SeparatorTypes THEN SeparatorStep(nl, st)
    ELSE ContentStep(nl, st, block)

\* lines 306-320: "Don't forget the last item"
EndStep(st) ==
    LET fin == FinalizeItem(st.current_item, st.item_blocks, st.item_block_ids)
        emit == /\ st.current_item # NoItem
                /\ st.item_blocks # <<>>
                /\ EndEmits(fin)
    IN  [st EXCEPT !.all_items = IF emit THEN Append(@, fin) ELSE @]

\* lines 216-218
StartState ==
    [current_item |-> NoItem, item_blocks |-> <<>>, item_block_ids |-> <<>>,
     all_items |-> <<>>]

RECURSIVE RunLoop(_, _, _)
RunLoop(nl, st, blocks) ==
    IF blocks = <<>> THEN st
    ELSE CHOOSE end \in {RunLoop(nl, next, Tail(blocks)) :
                           next \in {LoopBody(nl, st, Head(blocks))}} : TRUE

\* lines 211-320: the items one newsletter document yields, parsed afresh
ParseNewsletter(nl, blocks) == EndStep(RunLoop(nl, StartState, blocks)).all_items

(***************************************************************************)
(* extract_origin_blog_url                                                 *)
(***************************************************************************)
\* "https://www.talawanda.org/"
TalawandaOrg ==
    <<"h", "t", "t", "p", "s", ":", "/", "/", "w", "w", "w", ".", "t", "a", "l",
      "a", "w", "a", "n", "d", "a", ".", "o", "r", "g", "/">>
\* "-blog"
BlogSuffix == <<"-", "b", "l", "o", "g">>

\* p occurs in s at index i
StartsAt(s, i, p) ==
    i + Len(p) - 1 <= Len(s) /\ SubSeq(s, i, i + Len(p) - 1) = p

\* ([^/\?#]+) from index e on, greedy
SlugAt(s, e) ==
    LET stops == {j \in e..Len(s) : s[j] \in {"/", "?", "#"}}
    IN  SubSeq(s, e, IF stops = {} THEN Len(s) ELSE Min(stops) - 1)

\* group(1) of https?://(?:www\.)?talawanda\.org/([^/\?#]+) matched at index
\* i of href, '' when the pattern does not match there
MatchAt(href, i) ==
    LET a == i + 4
        b == IF StartsAt(href, a, <<"s">>) THEN a + 1 ELSE a
        c == b + 3
        d == IF StartsAt(href, c, <<"w", "w", "w", ".">>) THEN c + 4 ELSE c
        e == d + 14
    IN  IF /\ StartsAt(href, i, <<"h", "t", "t", "p">>)
           /\ StartsAt(href, b, <<":", "/", "/">>)
           /\ StartsAt(href, d, SubSeq(TalawandaOrg, 13, 26))
        THEN SlugAt(href, e)
        ELSE <<>>

\* blog_pattern.search(href): group(1) of the leftmost match, '' for no match
BlogSlug(href) ==
    LET hits == {i \in 1..Len(href) : MatchAt(href, i) # <<>>}
    IN  IF hits = {} THEN <<>> ELSE MatchAt(href, Min(hits))

\* lines 78-96; soup.main is whether main / div#main / article exists,
\* soup.hrefs the href of every <a href> inside it, in document order
extract_origin_blog_url(soup) ==
    IF ~soup.main THEN None
    ELSE LET hit == {i \in 1..Len(soup.hrefs) :
                        EndsWith(BlogSlug(soup.hrefs[i]), BlogSuffix)}
         IN  IF hit = {} THEN None
             ELSE TalawandaOrg \o BlogSlug(soup.hrefs[Min(hit)]) \o <<"/">>

(***************************************************************************)
(* parse_newsletters, blog_post documents                                  *)
(***************************************************************************)
\* "blog_post_"
BlogPostPrefix == <<"b", "l", "o", "g", "_", "p", "o", "s", "t", "_">>

\* lines 177-181: the non-empty src of every img of the content body
RECURSIVE NonEmptySrcs(_)
NonEmptySrcs(srcs) ==
    IF srcs = <<>> THEN <<>>
    ELSE (IF Head(srcs) # <<>> THEN <<Head(srcs)>> ELSE <<>>)
         \o NonEmptySrcs(Tail(srcs))

\* line 188 with the title passed through clean_title
BlogItemTitle_Cleaned(nl) == clean_title(nl.title)

\* line 188: the title of the blog item
BlogItemTitle(nl) == nl.title

\* lines 186-202
BlogItem(nl) ==
    LET content_text == Strip(nl.soup.text)
    IN  [title |-> BlogItemTitle(nl),
         block_id |-> BlogPostPrefix \o nl.url,
         content |-> content_text,
         images |-> NonEmptySrcs(nl.soup.imgs),
         source_url |-> nl.url, source_title |-> nl.title, date |-> nl.date,
         origin_blog_url |-> extract_origin_blog_url(nl.soup),
         blocks |-> <<[type |-> "blog_post_content", content |-> content_text,
                       id |-> nl.url]>>,
         type |-> "blog_post"]

\* lines 163-208: the items one blog_post document yields, parsed afresh
ParseBlogPost(nl) == IF nl.soup.main THEN <<BlogItem(nl)>> ELSE <<>>

(***************************************************************************)
(* deduplicate_items and _hash_item                                        *)
(***************************************************************************)
UpperCase ==
    <<"A", "B", "C", "D", "E", "F", "G", "H", "I", "J", "K", "L", "M", "N", "O",
      "P", "Q", "R", "S", "T", "U", "V", "W", "X", "Y", "Z">>
LowerCase ==
    <<"a", "b", "c", "d", "e", "f", "g", "h", "i", "j", "k", "l", "m", "n", "o",
      "p", "q", "r", "s", "t", "u", "v", "w", "x", "y", "z">>

ToLower ==
    [c \in {UpperCase[j] : j \in 1..26} |->
        LowerCase[CHOOSE j \in 1..26 : UpperCase[j] = c]]

\* s.lower()
LowerStr(s) ==
    [i \in 1..Len(s) |-> IF s[i] \in DOMAIN ToLower THEN ToLower[s[i]] ELSE s[i]]

\* item.get(key, default)
Get(item, key, default) == IF key \in DOMAIN item THEN item[key] ELSE default

\* a dict is the sequence of its [k, v] entries in insertion order
DictHas(d, k) == \E i \in 1..Len(d) : d[i].k = k
DictGet(d, k) == d[CHOOSE i \in 1..Len(d) : d[i].k = k].v
DictSet(d, k, v) ==
    IF DictHas(d, k)
    THEN [i \in 1..Len(d) |-> IF d[i].k = k THEN [k |-> k, v |-> v] ELSE d[i]]
    ELSE Append(d, [k |-> k, v |-> v])
DictValues(d) == [i \in 1..Len(d) |-> d[i].v]

\* "zoom_out_map"
ZoomOutMap ==
    <<"z", "o", "o", "m", "_", "o", "u", "t", "_", "m", "a", "p">>

\* lines 363-369
footer_only_patterns ==
    {
      <<"t", "a", "l", "a", "w", "a", "n", "d", "a", " ", "h", "i", "g",
        "h", " ", "s", "c", "h", "o", "o", "l", " ", "#", "e", "d", "u",
        "c", "a", "t", "e">>,
      <<"t", "a", "l", "a", "w", "a", "n", "d", "a", " ", "m", "i", "d",
        "d", "l", "e", " ", "s", "c", "h", "o", "o", "l", " ", "#">>,
      <<"b", "o", "g", "a", "n", " ", "e", "l", "e", "m", "e", "n", "t",
        "a", "r", "y", " ", "#">>,
      <<"k", "r", "a", "m", "e", "r", " ", "e", "l", "e", "m", "e", "n",
        "t", "a", "r", "y", " ", "#">>,
      <<"m", "a", "r", "s", "h", "a", "l", "l", " ", "e", "l", "e", "m",
        "e", "n", "t", "a", "r", "y", " ", "#">>
    }

\* line 353 without .lower()
NoiseTitle_CaseSensitive(item) == Get(item, "title", <<>>)

\* line 353: the title as the noise test reads it
NoiseTitle(item) == LowerStr(Get(item, "title", <<>>))

\* lines 353-371: matched_pattern is set
IsNoise(item) ==
    LET title == NoiseTitle(item)
    IN  /\ Contains(title, ZoomOutMap)
        /\ \E pattern \in footer_only_patterns : Contains(title, pattern)

\* hashlib.sha256(content.encode()).hexdigest(): a collision-free digest,
\* never equal to a block id
Sha256(content) == <<"sha256:">> \o content

\* lines 429-432: the title followed by the content of every fragment
RECURSIVE HashParts(_)
HashParts(blocks) ==
    IF blocks = <<>> THEN <<>>
    ELSE (IF "content" \in DOMAIN Head(blocks) THEN Head(blocks).content
          ELSE <<>>)
         \o HashParts(Tail(blocks))

\* lines 429-434 with the item's date mixed into the digest
_hash_item_WithDate(item) ==
    LET block_id == Get(item, "block_id", <<>>)
    IN  IF block_id # <<>> THEN block_id
        ELSE Sha256(Get(item, "title", <<>>)
                    \o HashParts(Get(item, "blocks", <<>>))
                    \o <<ToString(Get(item, "date", NoDate))>>)

\* lines 413-435
_hash_item(item) ==
    LET block_id == Get(item, "block_id", <<>>)
    IN  IF block_id # <<>> THEN block_id
        ELSE Sha256(Get(item, "title", <<>>)
                    \o HashParts(Get(item, "blocks", <<>>)))

\* line 382: item['hash'] = item_hash
WithHash(item, h) ==
    [f \in DOMAIN item \cup {"hash"} |-> IF f = "hash" THEN h ELSE item[f]]

\* line 393 with `<=`: a later item of the same date also replaces
ReplacesExisting_OnTie(new_date, existing_date) ==
    /\ new_date # NoDate
    /\ (existing_date = NoDate \/ new_date <= existing_date)

\* line 393 with the comparison reversed
ReplacesExisting_KeepsLater(new_date, existing_date) ==
    /\ new_date # NoDate
    /\ (existing_date = NoDate \/ new_date > existing_date)

\* line 393: the later-processed item replaces the kept one
ReplacesExisting(new_date, existing_date) ==
    /\ new_date # NoDate
    /\ (existing_date = NoDate \/ new_date < existing_date)

\* lines 385-395 where an item without a date never enters the groups
Regroup_DropsUndated(by_hash, item) ==
    IF Get(item, "date", NoDate) = NoDate THEN by_hash
    ELSE IF ~DictHas(by_hash, item.hash) THEN DictSet(by_hash, item.hash, item)
    ELSE IF Get(item, "date", NoDate) < Get(DictGet(by_hash, item.hash), "date", NoDate)
         THEN DictSet(by_hash, item.hash, item)
         ELSE by_hash

\* lines 385-395: items_by_hash after a non-noise item is grouped
Regroup(by_hash, item) ==
    LET h == item.hash
    IN  IF ~DictHas(by_hash, h) THEN DictSet(by_hash, h, item)
        ELSE IF ReplacesExisting(Get(item, "date", NoDate),
                                 Get(DictGet(by_hash, h), "date", NoDate))
             THEN DictSet(by_hash, h, item)
             ELSE by_hash

\* lines 374-378
FilteredEntry(item) ==
    [title |-> Get(item, "title", <<>>),
     reason |-> "footer_branding",
     content_preview |-> Take(Get(item, "content", <<>>), 100)]

\* lines 351-395: one iteration of `for item in items`
DedupStep(st, item) ==
    IF IsNoise(item)
    THEN [st EXCEPT !.filtered_items = Append(@, FilteredEntry(item))]
    ELSE [st EXCEPT !.items_by_hash =
                        Regroup(@, WithHash(item, _hash_item(item)))]

RECURSIVE DedupLoop(_, _)
DedupLoop(st, its) ==
    IF its = <<>> THEN st ELSE DedupLoop(DedupStep(st, Head(its)), Tail(its))

\* lines 346-410
deduplicate_items(its) ==
    DictValues(DedupLoop([items_by_hash |-> <<>>, filtered_items |-> <<>>],
                         its).items_by_hash)

(***************************************************************************)
(* filter_cross_posted_items (newsletter_feed/main.py)                     *)
(***************************************************************************)
\* lines 35-36 left out
NormalizeBlogUrl_Unchanged(current_blog_url) == current_blog_url

\* lines 35-36
NormalizeBlogUrl(current_blog_url) ==
    IF ~EndsWith(current_blog_url, <<"/">>)
    THEN current_blog_url \o <<"/">>
    ELSE current_blog_url

\* lines 42-52: the item is appended to filtered_items
KeepsItem(item, current_blog_url) ==
    LET origin_url == Get(item, "origin_blog_url", None)
    IN  \/ origin_url = None \/ origin_url = <<>>
        \/ origin_url = current_blog_url

RECURSIVE FilterLoop(_, _)
FilterLoop(its, current_blog_url) ==
    IF its = <<>> THEN <<>>
    ELSE (IF KeepsItem(Head(its), current_blog_url) THEN <<Head(its)>>
          ELSE <<>>)
         \o FilterLoop(Tail(its), current_blog_url)

\* lines 23-70: (filtered_items, len(cross_posts_filtered))
filter_cross_posted_items(its, current_blog_url) ==
    LET kept == FilterLoop(its, NormalizeBlogUrl(current_blog_url))
    IN  [filtered_items |-> kept, count |-> Len(its) - Len(kept)]

(***************************************************************************)
(* Input documents                                                         *)
(***************************************************************************)
Letters == <<"A", "B", "C", "D", "E", "F", "G", "H">>
Digits == <<"1", "2", "3", "4", "5", "6", "7", "8">>
IdNames == <<"b1", "b2", "b3", "b4", "b5", "b6", "b7", "b8">>

\* data-block-id of the block at position p: missing, or unique to the block
BlockIdsAt(p) == {<<>>, <<IdNames[p]>>}

UnknownType == "embed.video"

\* the div[data-block-type] nodes that can stand at position p
BlocksAt(p) ==
    [type : {"header", "misc.separator", UnknownType},
     id : BlockIdsAt(p), text : {<<>>}, img : {NoImg}]
    \cup [type : {"signature"}, id : {<<IdNames[p]>>}, text : {<<>>},
          img : {NoImg}]
    \cup [type : {"text.title"}, id : BlockIdsAt(p),
          text : {<<>>, <<Letters[p]>>}, img : {NoImg}]
    \cup [type : {"text.title"}, id : {<<IdNames[p]>>},
          text : {<<Letters[p], " ", Letters[p]>>}, img : {NoImg}]
    \cup [type : {"text.paragraph"}, id : BlockIdsAt(p),
          text : {<<>>, <<"p", Digits[p]>>}, img : {NoImg}]
    \cup [type : {"items"}, id : BlockIdsAt(p), text : {<<"l", Digits[p]>>},
          img : {NoImg}]
    \cup [type : {"image.single"}, id : BlockIdsAt(p), text : {<<>>},
          img : {<<"/", "u", "/", "t", "h", "u", "m", "b", "s", "/", Digits[p]>>}]
    \cup [type : {"image.single"}, id : {<<IdNames[p]>>}, text : {<<>>},
          img : {NoImg}]

\* "https://www.smore.com/n/a1"
SmoreUrl ==
    <<"h", "t", "t", "p", "s", ":", "/", "/", "w", "w", "w", ".", "s", "m", "o",
      "r", "e", ".", "c", "o", "m", "/", "n", "/", "a", "1">>
ThsSlug == <<"t", "h", "s">> \o BlogSuffix
TmsSlug == <<"t", "m", "s">> \o BlogSuffix

NewsletterDocs ==
    [type : {"newsletter"}, url : {SmoreUrl},
     title : {<<"E", "n", "e", "w", "s">>}, date : {NoDate, 5}]

\* hrefs found in the body of a blog post
HrefTmsEntry ==
    TalawandaOrg \o TmsSlug
    \o <<"/", "e", "n", "t", "r", "y", "?", "i", "d", "=", "1", "#", "t">>
HrefThsPlain ==
    <<"h", "t", "t", "p", ":", "/", "/">> \o SubSeq(TalawandaOrg, 13, 26)
    \o ThsSlug
HrefCalendar ==
    TalawandaOrg \o <<"c", "a", "l", "e", "n", "d", "a", "r", "/">>
HrefSmoreBlog == SubSeq(SmoreUrl, 1, 22) \o TmsSlug \o <<"/">>

BlogSoups ==
    [main : BOOLEAN,
     text : {<<" ", "h", "i", "\n">>},
     imgs : {<<>>, << <<"/", "u", "/", "x">>, <<>> >>},
     hrefs : {<<>>, <<HrefCalendar, HrefTmsEntry>>, <<HrefThsPlain>>,
              <<HrefSmoreBlog>>}]

BlogDocs ==
    [type : {"blog_post"},
     url : {TalawandaOrg \o ThsSlug \o <<"/", "e", "1">>,
            TalawandaOrg \o TmsSlug \o <<"/", "e", "2">>},
     title : {<<"G", "o", " ", " ", "G", "o">>},
     date : {NoDate, 5},
     soup : BlogSoups]

(***************************************************************************)
(* parse_newsletters as a state machine over one document                  *)
(***************************************************************************)
NoDoc == [type |-> "none"]

LoopState ==
    [current_item |-> current_item, item_blocks |-> item_blocks,
     item_block_ids |-> item_block_ids, all_items |-> all_items]

SetLoopState(st) ==
    /\ current_item' = st.current_item
    /\ item_blocks' = st.item_blocks
    /\ item_block_ids' = st.item_block_ids
    /\ all_items' = st.all_items

ParseInit ==
    /\ pc = "start"
    /\ newsletter = NoDoc
    /\ stream = <<>>
    /\ current_item = NoItem
    /\ item_blocks = <<>>
    /\ item_block_ids = <<>>
    /\ all_items = <<>>

DedupIdle ==
    /\ dpc = "loop"
    /\ items = <<>>
    /\ items_by_hash = <<>>
    /\ filtered_items = <<>>
    /\ unique_items = <<>>

FilterIdle ==
    fc = [done |-> FALSE, items |-> <<>>, current_blog_url |-> <<>>,
          filtered_items |-> <<>>, count |-> 0]

\* no call of clean_title under way
TitleIdle == tc = [done |-> FALSE, title |-> <<>>, result |-> <<>>]

\* no call of _generate_summary under way
EventIdle == ev = [done |-> FALSE, response |-> <<>>, result |-> <<>>]

\* no call of generate_calendar_links under way
CalendarIdle == cal = [done |-> FALSE, event_info |-> <<>>, links |-> <<>>]

\* no call of get_cache_files_for_block_ids under way
InvalidatorIdle ==
    inv = [done |-> FALSE, block_ids |-> {}, cache_types |-> <<>>,
           index |-> <<>>, existing |-> {}, files_to_delete |-> <<>>]

\* no RateLimiter constructed
LimiterIdle == rl = [made |-> FALSE]

\* get_newsletter_links not called
LinksIdle == pg = [pc |-> "idle"]

\* the limit of process_school not under study
LimitIdle == lm = [done |-> FALSE]

\* none of the helpers outside the pipeline is in use
AuxIdle == CalendarIdle /\ InvalidatorIdle /\ LimiterIdle /\ LinksIdle /\ LimitIdle

\* process_school has not returned
NotReturned == -1

\* the argument `limit`: <<>> for None, <<n>> for the integer n
NoLimit == <<>>

\* process_school not started: n runs made, nothing fetched or parsed yet,
\* no exit code, no JSON or RSS output written
NoRun ==
    [pc |-> "idle", n |-> 0, newsletters |-> <<>>, per_doc |-> <<>>,
     items |-> <<>>, reads |-> <<>>, writes |-> <<>>, sreads |-> <<>>,
     swrites |-> <<>>, limit |-> NoLimit, exit |-> NotReturned,
     json |-> None, rss |-> None]

\* no run made before and the model never asked
NoHistory == [newsletters |-> <<>>, per_doc |-> <<>>, model_calls |-> <<>>]

\* empty cache directories, no run made
RunIdle ==
    /\ page_cache = {}
    /\ parsed_cache = <<>>
    /\ summary_cache = <<>>
    /\ rn = NoRun
    /\ hist = NoHistory

Init ==
    ParseInit /\ DedupIdle /\ FilterIdle /\ TitleIdle /\ EventIdle /\ RunIdle
        /\ AuxIdle

\* lines 155-161, 211-218: a newsletter document is taken up
BeginNewsletter ==
    /\ pc = "start"
    /\ \E nl \in NewsletterDocs : newsletter' = nl
    /\ pc' = "blocks"
    /\ SetLoopState(StartState)
    /\ UNCHANGED <<stream, dedupVars, callVars, runVars>>

\* lines 163-208: a blog_post document is parsed in one go
BlogPost ==
    /\ pc = "start"
    /\ \E nl \in BlogDocs :
          /\ newsletter' = nl
          /\ all_items' = all_items \o ParseBlogPost(nl)
    /\ pc' = "done"
    /\ UNCHANGED <<stream, current_item, item_blocks, item_block_ids,
                   dedupVars, callVars, runVars>>

\* one iteration of the loop of line 220 on block b, the next of the page
TakeBlock(b) ==
    /\ stream' = Append(stream, b)
    /\ SetLoopState(LoopBody(newsletter, LoopState, b))
    /\ UNCHANGED <<pc, newsletter, dedupVars, callVars, runVars>>

MoreBlocks == pc = "blocks" /\ Len(stream) < MaxBlocks

\* lines 225-226
HeaderBlock ==
    /\ MoreBlocks
    /\ \E b \in BlocksAt(Len(stream) + 1) : b.type = "header" /\ TakeBlock(b)

\* lines 229-260
SeparatorBlock ==
    /\ MoreBlocks
    /\ \E b \in BlocksAt(Len(stream) + 1) :
          b.type \in SeparatorTypes /\ TakeBlock(b)

\* lines 262-304
ContentBlock ==
    /\ MoreBlocks
    /\ \E b \in BlocksAt(Len(stream) + 1) :
          b.type \notin SeparatorTypes \cup {"header"} /\ TakeBlock(b)

\* lines 306-320: the page has no more blocks
EndOfStream ==
    /\ pc = "blocks"
    /\ SetLoopState(EndStep(LoopState))
    /\ pc' = "done"
    /\ UNCHANGED <<newsletter, stream, dedupVars, callVars, runVars>>

Next ==
    \/ BeginNewsletter
    \/ BlogPost
    \/ HeaderBlock
    \/ SeparatorBlock
    \/ ContentBlock
    \/ EndOfStream

Spec == Init /\ [][Next]_vars

(***************************************************************************)
(* deduplicate_items as a state machine over its input list                *)
(***************************************************************************)
\* "Spirit Week"
TitleSpirit ==
    <<"S", "p", "i", "r", "i", "t", " ", "W", "e", "e", "k">>
\* "Talawanda High School #Educate"
TitleSchool ==
    <<"T", "a", "l", "a", "w", "a", "n", "d", "a", " ", "H", "i", "g", "h",
      " ", "S", "c", "h", "o", "o", "l", " ", "#", "E", "d", "u", "c", "a",
      "t", "e">>
\* "zoom_out_map Talawanda High School #Educate"
TitleFooter == ZoomOutMap \o <<" ">> \o TitleSchool

\* the item parse_newsletters makes of a title block and a paragraph block,
\* both with or both without a data-block-id, of a newsletter dated date
ParsedItem(title, with_ids, date) ==
    ParseNewsletter(
        [type |-> "newsletter", url |-> SmoreUrl,
         title |-> <<"E", "n", "e", "w", "s">>, date |-> date],
        <<[type |-> "text.title", id |-> IF with_ids THEN <<"x1">> ELSE <<>>,
           text |-> title, img |-> NoImg],
          [type |-> "text.paragraph",
           id |-> IF with_ids THEN <<"x2">> ELSE <<>>,
           text |-> <<"p", "1">>, img |-> NoImg]>>)[1]

\* the item made of the same title block and the paragraph in two blocks,
\* none of them with a data-block-id
TwoParagraphItem ==
    ParseNewsletter(
        [type |-> "newsletter", url |-> SmoreUrl,
         title |-> <<"E", "n", "e", "w", "s">>, date |-> 5],
        <<[type |-> "text.title", id |-> <<>>, text |-> TitleSpirit,
           img |-> NoImg],
          [type |-> "text.paragraph", id |-> <<>>, text |-> <<"p">>,
           img |-> NoImg],
          [type |-> "text.paragraph", id |-> <<>>, text |-> <<"1">>,
           img |-> NoImg]>>)[1]

DedupInputs ==
    {TwoParagraphItem} \cup
    {ParsedItem(TitleSpirit, with_ids, date) :
        with_ids \in BOOLEAN, date \in {NoDate, 5, 10}}
    \cup {ParsedItem(TitleSchool, TRUE, date) : date \in {NoDate, 5}}
    \cup {ParsedItem(TitleSchool, FALSE, 10)}
    \cup {ParsedItem(TitleFooter, TRUE, 5), ParsedItem(TitleFooter, FALSE, NoDate)}

DedupState ==
    [items_by_hash |-> items_by_hash, filtered_items |-> filtered_items]

\* lines 351-395: the loop takes the next item of the input list
DedupItem ==
    /\ dpc = "loop"
    /\ Len(items) < MaxItems
    /\ \E item \in DedupInputs :
          /\ items' = Append(items, item)
          /\ LET st == DedupStep(DedupState, item)
             IN  /\ items_by_hash' = st.items_by_hash
                 /\ filtered_items' = st.filtered_items
    /\ UNCHANGED <<dpc, unique_items, parseVars, callVars, runVars>>

\* lines 398-410: the input list is exhausted
DedupReturn ==
    /\ dpc = "loop"
    /\ unique_items' = DictValues(items_by_hash)
    /\ dpc' = "done"
    /\ UNCHANGED <<items, items_by_hash, filtered_items, parseVars, callVars, runVars>>

NextDedup == DedupItem \/ DedupReturn

SpecDedup == Init /\ [][NextDedup]_vars

(***************************************************************************)
(* filter_cross_posted_items on the output of parse and dedup              *)
(***************************************************************************)
\* the blog of the feed being built (school['blog_url'])
BlogUrls ==
    {TalawandaOrg \o ThsSlug, TalawandaOrg \o ThsSlug \o <<"/">>,
     TalawandaOrg \o TmsSlug, TalawandaOrg \o TmsSlug \o <<"/">>}

\* documents of one run: blog posts and a newsletter
FilterDocItems ==
    UNION {{ParseBlogPost(nl) : nl \in {d \in BlogDocs : d.date = 5 /\ d.soup.imgs = <<>>}},
           {<<ParsedItem(TitleSpirit, TRUE, 5)>>}}

RECURSIVE SeqsUpTo(_, _)
SeqsUpTo(S, n) ==
    IF n = 0 THEN {<<>>}
    ELSE SeqsUpTo(S, n - 1)
         \cup {Append(q, x) : q \in {r \in SeqsUpTo(S, n - 1) : Len(r) = n - 1},
                              x \in S}

RECURSIVE Flatten(_)
Flatten(lists) ==
    IF lists = <<>> THEN <<>> ELSE Head(lists) \o Flatten(Tail(lists))

FilterInit ==
    /\ ParseInit
    /\ DedupIdle
    /\ TitleIdle
    /\ EventIdle
    /\ RunIdle
    /\ AuxIdle
    /\ \E docs \in SeqsUpTo(FilterDocItems, MaxFilterItems), url \in BlogUrls :
          fc = [done |-> FALSE,
                items |-> deduplicate_items(Flatten(docs)),
                current_blog_url |-> url,
                filtered_items |-> <<>>, count |-> 0]

\* process_school step 4: the call of line 133
FilterCall ==
    /\ ~fc.done
    /\ LET r == filter_cross_posted_items(fc.items, fc.current_blog_url)
       IN  fc' = [fc EXCEPT !.done = TRUE,
                            !.filtered_items = r.filtered_items,
                            !.count = r.count]
    /\ UNCHANGED <<parseVars, dedupVars, tc, ev, runVars, auxVars>>

NextFilter == FilterCall

SpecFilter == FilterInit /\ [][NextFilter]_vars

(***************************************************************************)
(* clean_title as a state machine over one call                            *)
(***************************************************************************)
MaxWords == 4

\* the character c, n times
Rep(c, n) == [i \in 1..n |-> c]

\* words of a raw title: short ones, and long ones around the length limit
WordPool ==
    {<<"G", "o">>, <<"D", "a", "y">>, <<"q", "r", "s", "t">>,
     Rep("y", 95), Rep("z", 101)}

\* whitespace between the words, and around the title
TitleGaps == {<<" ">>, <<" ", "\n", "\t">>}
TitlePads == {<<>>, <<" ">>}

TitleInputs ==
    {lead \o Join(ws, gap) \o trail :
        ws \in SeqsUpTo(WordPool, MaxWords), gap \in TitleGaps,
        lead \in TitlePads, trail \in TitlePads}

TitleInit ==
    /\ ParseInit
    /\ DedupIdle
    /\ FilterIdle
    /\ EventIdle
    /\ RunIdle
    /\ AuxIdle
    /\ \E t \in TitleInputs : tc = [done |-> FALSE, title |-> t, result |-> <<>>]

\* lines 99-128: the call returns
CleanTitleCall ==
    /\ ~tc.done
    /\ tc' = [tc EXCEPT !.done = TRUE, !.result = clean_title(tc.title)]
    /\ UNCHANGED <<parseVars, dedupVars, fc, ev, runVars, auxVars>>

NextTitle == CleanTitleCall

SpecTitle == TitleInit /\ [][NextTitle]_vars

(***************************************************************************)
(* _generate_summary (newsletter_feed/summarizer.py): the model's response *)
(* is parsed into a title, a summary and events.  An event block is the    *)
(* sequence of its "KEY: value" lines; a datetime is [day, hour, minute]   *)
(* with day the day of December 2025.                                      *)
(***************************************************************************)
Unknown == <<"u", "n", "k", "n", "o", "w", "n">>

\* a ValueError raised while an event is built
Invalid == [err |-> TRUE]

DigitChars == <<"0", "1", "2", "3", "4", "5", "6", "7", "8", "9">>

IsDigit(c) == \E d \in 1..10 : DigitChars[d] = c

DigitVal(c) == (CHOOSE d \in 1..10 : DigitChars[d] = c) - 1

\* int(s) for a str of decimal digits; anything else raises ValueError
RECURSIVE ParseInt(_)
ParseInt(s) ==
    IF s = <<>> \/ \E i \in 1..Len(s) : ~IsDigit(s[i]) THEN -1
    ELSE IF Len(s) = 1 THEN DigitVal(s[1])
    ELSE 10 * ParseInt(SubSeq(s, 1, Len(s) - 1)) + DigitVal(s[Len(s)])

\* s.split(':')
RECURSIVE SplitOnColon(_)
SplitOnColon(s) ==
    LET at == {i \in 1..Len(s) : s[i] = ":"}
    IN  IF at = {} THEN <<s>>
        ELSE <<SubSeq(s, 1, Min(at) - 1)>>
             \o SplitOnColon(SubSeq(s, Min(at) + 1, Len(s)))

DecemberPrefix == <<"2", "0", "2", "5", "-", "1", "2", "-">>

\* "9999-12-31", the date of datetime.max
MaxDate == <<"9", "9", "9", "9", "-", "1", "2", "-", "3", "1">>

\* the days from 2025-11-30 to 9999-12-31
MaxDay == 2912474

\* an exception that `except (ValueError, IndexError)` does not catch
OverflowError == [raised |-> "OverflowError"]

\* datetime.fromisoformat(s) for a date "2025-12-DD" or "9999-12-31", as
\* days since 2025-11-30; anything else raises ValueError
FromIsoFormat(s) ==
    IF s = MaxDate THEN [day |-> MaxDay, hour |-> 0, minute |-> 0]
    ELSE IF /\ Len(s) = 10
            /\ SubSeq(s, 1, 8) = DecemberPrefix
            /\ ParseInt(SubSeq(s, 9, 10)) \in 1..31
    THEN [day |-> ParseInt(SubSeq(s, 9, 10)), hour |-> 0, minute |-> 0]
    ELSE Invalid

\* replace() taking any hour and minute, wrapped into the clock's range
WithTime_Wrapping(dt, parts) ==
    LET hour == ParseInt(parts[1])
        minute == ParseInt(parts[2])
    IN  IF hour >= 0 /\ minute >= 0
        THEN [dt EXCEPT !.hour = hour % 24, !.minute = minute % 60]
        ELSE Invalid

\* dt.replace(hour=int(parts[0]), minute=int(parts[1]))
WithTime(dt, parts) ==
    LET hour == ParseInt(parts[1])
        minute == ParseInt(parts[2])
    IN  IF hour \in 0..23 /\ minute \in 0..59
        THEN [dt EXCEPT !.hour = hour, !.minute = minute]
        ELSE Invalid

\* dt + timedelta(hours=1); past datetime.max it raises OverflowError
PlusOneHour(dt) ==
    IF dt.hour = 23
    THEN IF dt.day = MaxDay THEN OverflowError
         ELSE [dt EXCEPT !.day = @ + 1, !.hour = 0]
    ELSE [dt EXCEPT !.hour = @ + 1]

\* the keys of the lines in which re.search finds "KEY:"
KeysEndingWith(key) ==
    CASE key = "DATE" -> {"DATE", "END_DATE"}
      [] key = "TIME" -> {"TIME", "END_TIME"}
      [] OTHER -> {key}

\* lines 220-230: re.search(r'KEY:\s*(.+?)(?:\n|$)', event_block), stripped
FieldOf(block, key, default) ==
    LET hit == {i \in 1..Len(block) : block[i].k \in KeysEndingWith(key)}
    IN  IF hit = {} THEN default ELSE Strip(block[Min(hit)].v)

\* lines 219-269: the events one event block adds (none or one), or the
\* exception that leaves the loop
ParseEventBlock(block, improved_title, summary) ==
    LET event_title == FieldOf(block, "TITLE", improved_title)
        event_date == FieldOf(block, "DATE", Unknown)
        event_time == FieldOf(block, "TIME", Unknown)
        event_end_time == FieldOf(block, "END_TIME", Unknown)
        event_location == FieldOf(block, "LOCATION", Unknown)
        day == FromIsoFormat(event_date)
        time_parts == SplitOnColon(event_time)
        event_datetime ==
            IF day = Invalid THEN Invalid
            ELSE IF event_time # Unknown /\ Len(time_parts) = 2
                 THEN WithTime(day, time_parts)
                 ELSE day
        end_time_parts == SplitOnColon(event_end_time)
        event_end_datetime ==
            IF event_datetime = Invalid THEN Invalid
            ELSE IF event_end_time # Unknown /\ Len(end_time_parts) = 2
                 THEN WithTime(event_datetime, end_time_parts)
                 ELSE PlusOneHour(event_datetime)
    IN  IF event_date = Unknown THEN <<>>
        ELSE IF event_datetime = Invalid \/ event_end_datetime = Invalid
             THEN <<>>
        ELSE IF event_end_datetime = OverflowError THEN <<OverflowError>>
             ELSE <<[title |-> event_title,
                     start |-> event_datetime,
                     end |-> event_end_datetime,
                     description |-> Take(summary, 200),
                     location |-> IF event_location # Unknown
                                  THEN event_location ELSE <<>>]>>

RECURSIVE ParseEventBlocks(_, _, _)
ParseEventBlocks(blocks, improved_title, summary) ==
    IF blocks = <<>> THEN <<>>
    ELSE ParseEventBlock(Head(blocks), improved_title, summary)
         \o ParseEventBlocks(Tail(blocks), improved_title, summary)

\* "no EVENTS: line in the response"
NoCount == -1

\* lines 192-275: the result made of a response
\* [title, summary, num_events, event_blocks]
ParseResponse(title, response) ==
    LET titled == {i \in 1..Len(response.event_blocks) :
                     FieldOf(response.event_blocks[i], "TITLE", None) # None}
        \* line 195: the first "TITLE:" of the whole response text
        improved_title ==
            IF response.title # None THEN Strip(response.title)
            ELSE IF titled # {}
                 THEN FieldOf(response.event_blocks[Min(titled)], "TITLE", None)
                 ELSE title
        summary == Strip(response.summary)
        events ==
            IF response.num_events > 0
            THEN ParseEventBlocks(Take(response.event_blocks,
                                       response.num_events),
                                  improved_title, summary)
            ELSE <<>>
        base == [title |-> improved_title, summary |-> summary]
    IN  IF \E i \in 1..Len(events) : events[i] = OverflowError
        THEN OverflowError
        ELSE IF events # <<>>
        THEN [f \in {"title", "summary", "event_info"} |->
                 IF f = "event_info" THEN events ELSE base[f]]
        ELSE base

(***************************************************************************)
(* _generate_summary as a state machine over one response                  *)
(***************************************************************************)
MaxEventBlocks == 2

\* the line is missing from the event block
Absent == <<"<absent>">>

Dec16 == DecemberPrefix \o <<"1", "6">>
Dec19 == DecemberPrefix \o <<"1", "9">>
InvalidDate ==
    <<"i", "n", "v", "a", "l", "i", "d", "-", "d", "a", "t", "e">>

DateValues == {Dec16, Absent, InvalidDate, Unknown, MaxDate}
EndDateValues == {Absent, Dec19, InvalidDate}
TimeValues ==
    {Unknown, <<"1", "0", ":", "0", "0">>, <<"2", "3", ":", "3", "0">>,
     <<"2", "5", ":", "0", "0">>}
EndTimeValues ==
    {Unknown, <<"1", "2", ":", "0", "0">>, <<"2", "3", ":", "5", "9">>,
     <<"1", "2", "0", "0">>, <<"2", "5", ":", "9", "9">>}

\* an event block in the order the prompt asks for (lines 161-166)
EventLines(date, end_date, time, end_time) ==
    SelectSeq(<<[k |-> "TITLE", v |-> <<"F", "i", "n", "a", "l", "s">>],
                [k |-> "DATE", v |-> date],
                [k |-> "END_DATE", v |-> end_date],
                [k |-> "TIME", v |-> time],
                [k |-> "END_TIME", v |-> end_time],
                [k |-> "LOCATION", v |-> <<"T", "H", "S">>]>>,
              LAMBDA line : line.v # Absent)

EventBlocks ==
    {EventLines(d, ed, t, et) :
        d \in DateValues, ed \in EndDateValues,
        t \in TimeValues, et \in EndTimeValues}

\* a well-formed block, a block without a date and a block with an
\* END_TIME that is no clock time
FewBlocks ==
    {EventLines(Dec19, Absent, <<"1", "0", ":", "0", "0">>,
                <<"1", "2", ":", "0", "0">>),
     EventLines(Unknown, Absent, <<"1", "0", ":", "0", "0">>,
                <<"1", "2", ":", "0", "0">>),
     EventLines(Dec16, Absent, <<"1", "0", ":", "0", "0">>,
                <<"2", "5", ":", "9", "9">>)}

\* s with block b at position i, when s has a position i
PutBlock(s, i, b) == IF i <= Len(s) THEN [s EXCEPT ![i] = b] ELSE s

\* the event blocks of a response: at most one of them is drawn from all
\* of EventBlocks, the others from FewBlocks
EventBlockSeqs ==
    {PutBlock(s, i, b) : s \in SeqsUpTo(FewBlocks, MaxEventBlocks),
                         i \in 1..MaxEventBlocks, b \in EventBlocks}

Responses ==
    [title : {None, <<"W", "e", "e", "k">>},
     summary : {<<"S", ".">>},
     num_events : {NoCount} \cup 0..(MaxEventBlocks + 1),
     event_blocks : EventBlockSeqs]

\* the title argument of _generate_summary
ItemTitle == <<"t">>

EventInit ==
    /\ ParseInit
    /\ DedupIdle
    /\ FilterIdle
    /\ TitleIdle
    /\ RunIdle
    /\ AuxIdle
    /\ \E r \in Responses : ev = [done |-> FALSE, response |-> r, result |-> <<>>]

\* lines 192-275: the response is parsed and the result returned
GenerateSummary ==
    /\ ~ev.done
    /\ ev' = [ev EXCEPT !.done = TRUE,
                        !.result = ParseResponse(ItemTitle, ev.response)]
    /\ UNCHANGED <<parseVars, dedupVars, fc, tc, runVars, auxVars>>

NextEvent == GenerateSummary

SpecEvent == EventInit /\ [][NextEvent]_vars

(***************************************************************************)
(* The caches and one run of process_school: fetch_newsletters             *)
(* (scraper.py), parse_newsletters with cache/parsed (parser.py),          *)
(* deduplicate_items, filter_cross_posted_items and summarize_items with   *)
(* cache/summaries (newsletter_feed/summarizer.py, common/cache.py).       *)
(***************************************************************************)
\* "https://www.smore.com/n/a2"
SmoreUrl2 == SubSeq(SmoreUrl, 1, 25) \o <<"2">>

\* blog entry pages of the school blog
EntryUrl(n) == TalawandaOrg \o ThsSlug \o <<"/", "e", n>>

\* the page served for a url: its <title>, its data-block-type divs and, for
\* a blog entry, its main content area
PageOf(url) ==
    IF url = SmoreUrl
    THEN [title |-> <<"E", "n", "e", "w", "s">>,
          blocks |-> <<[type |-> "text.title", id |-> <<"b1">>,
                        text |-> <<"A">>, img |-> NoImg],
                       [type |-> "text.paragraph", id |-> <<"b2">>,
                        text |-> <<"p", "1">>, img |-> NoImg]>>,
          soup |-> [main |-> FALSE, text |-> <<>>, imgs |-> <<>>,
                    hrefs |-> <<>>]]
    ELSE IF url = SmoreUrl2
    THEN [title |-> <<"E", "n", "e", "w", "s">>,
          blocks |-> <<[type |-> "text.paragraph", id |-> <<>>,
                        text |-> <<"p", "2">>, img |-> NoImg]>>,
          soup |-> [main |-> FALSE, text |-> <<>>, imgs |-> <<>>,
                    hrefs |-> <<>>]]
    ELSE [title |-> <<"G", "o">>,
          blocks |-> <<>>,
          soup |-> [main |-> TRUE, text |-> <<" ", "h", "i", "\n">>,
                    imgs |-> <<>>, hrefs |-> <<>>]]

\* scraper.py 130-154: the entry made of one divBlogWrapper
\* [entry_url, smore (None when it has no Smore link), title, date]
EntryOf(w, cached_urls) ==
    IF w.smore # None
    THEN [url |-> w.smore, title |-> w.title, date |-> w.date,
          type |-> "newsletter", cached |-> w.smore \in cached_urls]
    ELSE [url |-> w.entry_url, title |-> w.title, date |-> w.date,
          type |-> "blog_post", cached |-> w.entry_url \in cached_urls]

\* scraper.py 105-164: the entries of one listing page; a wrapper whose
\* entry_url was seen before is skipped
RECURSIVE get_newsletter_links(_, _, _)
get_newsletter_links(wrappers, seen_urls, cached_urls) ==
    IF wrappers = <<>> THEN <<>>
    ELSE LET w == Head(wrappers)
         IN  IF w.entry_url \in seen_urls
             THEN get_newsletter_links(Tail(wrappers), seen_urls, cached_urls)
             ELSE <<EntryOf(w, cached_urls)>>
                  \o get_newsletter_links(Tail(wrappers),
                                          seen_urls \cup {w.entry_url},
                                          cached_urls)

\* scraper.py 243-292 and 298-379: the document fetched for an entry
FetchEntry(e) ==
    [type |-> e.type, url |-> e.url,
     title |-> IF e.type = "blog_post" /\ e.title # <<>> THEN e.title
               ELSE PageOf(e.url).title,
     date |-> e.date,
     blocks |-> PageOf(e.url).blocks, soup |-> PageOf(e.url).soup]

\* scraper.py 419-426: an entry known from cache/newsletters only
CachedOnlyEntry(url) ==
    [url |-> url, title |-> <<>>, date |-> NoDate, type |-> "newsletter",
     cached |-> TRUE]

\* scraper.py 391-486; all_cached_urls is the directory listing, in its order
fetch_newsletters(wrappers, all_cached_urls) ==
    LET cached_urls == {all_cached_urls[i] : i \in 1..Len(all_cached_urls)}
        scraped == get_newsletter_links(wrappers, {}, cached_urls)
        scraped_urls == {scraped[i].url : i \in 1..Len(scraped)}
        cached_only_urls ==
            SelectSeq(all_cached_urls, LAMBDA u : u \notin scraped_urls)
        entries_data ==
            scraped \o [i \in 1..Len(cached_only_urls) |->
                           CachedOnlyEntry(cached_only_urls[i])]
        ordered == SelectSeq(entries_data, LAMBDA e : e.cached)
                   \o SelectSeq(entries_data, LAMBDA e : ~e.cached)
    IN  IF scraped = <<>> THEN <<>>
        ELSE [i \in 1..Len(ordered) |-> FetchEntry(ordered[i])]

\* parser.py 16-19: injective in the url
_get_newsletter_cache_key(nl) == <<"md5:">> \o nl.url

\* datetime.isoformat() and datetime.fromisoformat()
IsoFormat(date) == <<"iso", date>>
FromIso(text) == text[2]

\* None as json.dump writes it
JsonNull == <<"null">>

\* parser.py 56-57 and 34-35: the date of an item on its way to and from
\* the cache file
DumpDate(date) == IF date # NoDate THEN IsoFormat(date) ELSE JsonNull
LoadDate(stored) == IF stored # JsonNull THEN FromIso(stored) ELSE NoDate

\* parser.py 50-58 with the block_id lost on the way to the file
SerializableItem_NoBlockId(item) ==
    [item EXCEPT !.date = DumpDate(@), !.block_id = <<>>]

\* parser.py 50-58: one item as written to the cache file
SerializableItem(item) == [item EXCEPT !.date = DumpDate(@)]

\* parser.py 42-61
_save_parsed_items_to_cache(cache, nl, its) ==
    DictSet(cache, _get_newsletter_cache_key(nl),
            [i \in 1..Len(its) |-> SerializableItem(its[i])])

\* parser.py 22-39; None when there is no file
_load_parsed_items_from_cache(cache, nl) ==
    IF ~DictHas(cache, _get_newsletter_cache_key(nl)) THEN None
    ELSE LET stored == DictGet(cache, _get_newsletter_cache_key(nl))
         IN  [i \in 1..Len(stored) |->
                 [stored[i] EXCEPT !.date = LoadDate(@)]]

\* parser.py 153-320: the items of one document, parsed afresh
ParseDoc(nl) ==
    IF nl.type = "blog_post" THEN ParseBlogPost(nl)
    ELSE ParseNewsletter(nl, nl.blocks)

\* parser.py 145-324: one iteration of `for newsletter in newsletters`;
\* reads and writes list the cache keys read and written
ParseCachedStep(st, nl) ==
    LET cached_items == _load_parsed_items_from_cache(st.cache, nl)
        key == _get_newsletter_cache_key(nl)
        \* line 148: `if cached_items:`, neither None nor an empty list
        hit == DictHas(st.cache, key) /\ cached_items # <<>>
        Rest(newsletter_items) ==
            LET saved == ~hit /\ newsletter_items # <<>>
            IN  [cache |-> IF saved
                           THEN _save_parsed_items_to_cache(st.cache, nl,
                                                            newsletter_items)
                           ELSE st.cache,
                 all_items |-> st.all_items \o newsletter_items,
                 per_doc |-> Append(st.per_doc, newsletter_items),
                 reads |-> Append(st.reads, key),
                 writes |-> IF saved THEN Append(st.writes, key)
                            ELSE st.writes]
    IN  CHOOSE after \in {Rest(newsletter_items) :
                             newsletter_items \in
                                 {IF hit THEN cached_items ELSE ParseDoc(nl)}} :
            TRUE

\* common/cache.py 131-138: injective in the block_id
sanitize_cache_filename(block_id) ==
    IF Len(block_id) >= Len(BlogPostPrefix)
       /\ SubSeq(block_id, 1, Len(BlogPostPrefix)) = BlogPostPrefix
    THEN <<"md5:">> \o block_id
    ELSE block_id

\* the record item with field f set to v
SetField(item, f, v) ==
    [g \in DOMAIN item \cup {f} |-> IF g = f THEN v ELSE item[g]]

\* common/cache.py 188-227: what the summary file holds
_save_summary_to_cache(cache, block_id, result) ==
    LET base == [block_id |-> block_id, title |-> result.title,
                 summary |-> result.summary]
        stored ==
            IF "event_info" \in DOMAIN result /\ result.event_info # <<>>
            THEN SetField(base, "event_info",
                     [i \in 1..Len(result.event_info) |->
                         [result.event_info[i] EXCEPT
                             !.start = IsoFormat(@), !.end = IsoFormat(@)]])
            ELSE base
    IN  DictSet(cache, sanitize_cache_filename(block_id), stored)

\* common/cache.py 141-185; None when there is no file
_load_summary_from_cache(cache, block_id) ==
    IF ~DictHas(cache, sanitize_cache_filename(block_id)) THEN None
    ELSE LET cached == DictGet(cache, sanitize_cache_filename(block_id))
             base == [title |-> cached.title, summary |-> cached.summary]
         IN  IF "event_info" \in DOMAIN cached
             THEN SetField(base, "event_info",
                      [i \in 1..Len(cached.event_info) |->
                          [cached.event_info[i] EXCEPT
                              !.start = FromIso(@), !.end = FromIso(@)]])
             ELSE base

\* every item is taken for a miss
SummaryHit_Never(cache, item) == FALSE

\* summarizer.py 42-44: `if cached_result and cached_result.get('summary')`
SummaryHit(cache, item) ==
    LET block_id == Get(item, "block_id", <<>>)
    IN  /\ block_id # <<>>
        /\ DictHas(cache, sanitize_cache_filename(block_id))
        /\ _load_summary_from_cache(cache, block_id).summary # <<>>

\* summarizer.py 42-81: the cached result on a hit, else what
\* _generate_summary returns on the response of the model; an error of the
\* API call or of the parsing of its response is an exception
SummaryResult(cache, item, response) ==
    IF SummaryHit(cache, item)
    THEN _load_summary_from_cache(cache, Get(item, "block_id", <<>>))
    ELSE IF "raised" \in DOMAIN response THEN response
    ELSE ParseResponse(item.title, response)

\* an exception throws away what the run has saved
StoreResult_ClearsCache(st, item, hit, result) ==
    LET block_id == Get(item, "block_id", <<>>)
        key == sanitize_cache_filename(block_id)
        titled == IF hit /\ result.title = <<>> THEN item
                  ELSE SetField(item, "title", result.title)
        summed == SetField(titled, "summary", result.summary)
        done == IF "event_info" \in DOMAIN result /\ result.event_info # <<>>
                THEN SetField(summed, "event_info", result.event_info)
                ELSE summed
        sreads == IF block_id # <<>> THEN Append(st.sreads, key)
                  ELSE st.sreads
    IN  IF "raised" \in DOMAIN result
        THEN [cache |-> <<>>, item |-> item, sreads |-> sreads,
              swrites |-> st.swrites, called |-> TRUE, raised |-> TRUE]
        ELSE [cache |-> IF ~hit /\ block_id # <<>>
                        THEN _save_summary_to_cache(st.cache, block_id, result)
                        ELSE st.cache,
              item |-> done,
              sreads |-> sreads,
              swrites |-> IF ~hit /\ block_id # <<>>
                          THEN Append(st.swrites, key)
                          ELSE st.swrites,
              called |-> ~hit, raised |-> FALSE]

\* summarizer.py 46-50, 82-104: the result is put into the item and, on a
\* miss, saved; lines 99-102: the exception leaves summarize_items
StoreResult(st, item, hit, result) ==
    LET block_id == Get(item, "block_id", <<>>)
        key == sanitize_cache_filename(block_id)
        titled == IF hit /\ result.title = <<>> THEN item
                  ELSE SetField(item, "title", result.title)
        summed == SetField(titled, "summary", result.summary)
        done == IF "event_info" \in DOMAIN result /\ result.event_info # <<>>
                THEN SetField(summed, "event_info", result.event_info)
                ELSE summed
        sreads == IF block_id # <<>> THEN Append(st.sreads, key)
                  ELSE st.sreads
    IN  IF "raised" \in DOMAIN result
        THEN [cache |-> st.cache, item |-> item, sreads |-> sreads,
              swrites |-> st.swrites, called |-> TRUE, raised |-> TRUE]
        ELSE [cache |-> IF ~hit /\ block_id # <<>>
                        THEN _save_summary_to_cache(st.cache, block_id, result)
                        ELSE st.cache,
              item |-> done,
              sreads |-> sreads,
              swrites |-> IF ~hit /\ block_id # <<>>
                          THEN Append(st.swrites, key)
                          ELSE st.swrites,
              called |-> ~hit, raised |-> FALSE]

\* summarizer.py 37-104: one iteration of `for i, item in enumerate(items)`
\* on the response the model gives if it is asked
SummarizeStep(st, item, response) ==
    CHOOSE out \in {StoreResult(st, item, hit, result) :
                       hit \in {SummaryHit(st.cache, item)},
                       result \in {SummaryResult(st.cache, item, response)}} :
        TRUE

(***************************************************************************)
(* process_school as a state machine: successive runs over the caches      *)
(***************************************************************************)
MaxRuns == 2
MaxWrappers == 2

\* divBlogWrapper elements of the listing page: two entries that link the
\* same Smore newsletter, a plain blog post, an entry with another newsletter
Wrappers ==
    {[entry_url |-> EntryUrl("1"), smore |-> SmoreUrl,
      title |-> <<"G", "o">>, date |-> 5],
     [entry_url |-> EntryUrl("2"), smore |-> SmoreUrl,
      title |-> <<"G", "o">>, date |-> 9],
     [entry_url |-> EntryUrl("3"), smore |-> None,
      title |-> <<"G", "o">>, date |-> 9],
     [entry_url |-> EntryUrl("4"), smore |-> SmoreUrl2,
      title |-> <<"G", "o">>, date |-> 5]}

\* the orders in which a directory listing can give the cached urls
Orderings(S) ==
    {q \in SeqsUpTo(S, Cardinality(S)) :
        Len(q) = Cardinality(S) /\ {q[i] : i \in 1..Len(q)} = S}

\* client.messages.create raises
ApiError == [raised |-> "APIError"]

\* message.content[0].text is empty
EmptyResponse ==
    [title |-> None, summary |-> <<>>, num_events |-> NoCount,
     event_blocks |-> <<>>]

\* what the model answers when asked for a summary
SummaryResponses ==
    {[title |-> <<"W", "e", "e", "k">>, summary |-> <<"S", ".">>,
      num_events |-> 0, event_blocks |-> <<>>],
     [title |-> None, summary |-> <<"S", ".">>, num_events |-> 1,
      event_blocks |->
          <<EventLines(Dec16, Absent, <<"1", "0", ":", "0", "0">>, Unknown)>>]}

\* the values of `limit` process_school is run with
RunLimits == {NoLimit, <<1>>}

\* datetime.min and datetime.max among the dates of the model
DatetimeMin == -1
DatetimeMax == 10000

\* x.get('date') or default
DateOr(x, default) == IF x.date # NoDate THEN x.date ELSE default

\* sorted(its, key=lambda x: x.get('date') or default, reverse=True): the
\* sort is stable, items of equal key stay in their order
SortedNewestFirst(its, default) ==
    LET rank(i) ==
            Cardinality({j \in 1..Len(its) :
                \/ DateOr(its[j], default) > DateOr(its[i], default)
                \/ /\ DateOr(its[j], default) = DateOr(its[i], default)
                   /\ j < i}) + 1
    IN  [p \in 1..Len(its) |-> its[CHOOSE i \in 1..Len(its) : rank(i) = p]]

\* main.py 142-150: `if limit and len(unique_items) > limit`
ApplyLimit(remaining, limit) ==
    IF limit # NoLimit /\ limit[1] # 0 /\ Len(remaining) > limit[1]
    THEN LET sorted == SortedNewestFirst(remaining, DatetimeMin)
         \* sorted[:limit] of a negative limit leaves out the last -limit
         IN  IF limit[1] > 0 THEN Take(sorted, limit[1])
             ELSE Take(sorted, Max({0, Len(sorted) + limit[1]}))
    ELSE remaining

\* school['blog_url']
SchoolBlogUrl == TalawandaOrg \o ThsSlug

\* main.py 99-105: step 1, the listing is scraped and the entries fetched;
\* the previous run's documents and items are remembered in hist
StartRun(listings, limits) ==
    /\ rn.pc \in {"idle", "done"}
    /\ rn.n < MaxRuns
    /\ \E wrappers \in listings,
          all_cached_urls \in Orderings(page_cache),
          limit \in limits :
          \E docs \in {fetch_newsletters(wrappers, all_cached_urls)} :
              /\ page_cache' = page_cache \cup {docs[i].url : i \in 1..Len(docs)}
              /\ rn' = [NoRun EXCEPT !.pc = IF docs = <<>> THEN "done"
                                             ELSE "parse",
                                     !.exit = IF docs = <<>> THEN 1
                                              ELSE NotReturned,
                                     !.n = rn.n + 1,
                                     !.limit = limit,
                                     !.newsletters = docs]
    /\ hist' = [hist EXCEPT !.newsletters = rn.newsletters,
                            !.per_doc = rn.per_doc]
    /\ UNCHANGED <<parseVars, dedupVars, callVars, parsed_cache, summary_cache>>

\* process_school(school, output_dir) is called
FetchNewsletters == StartRun(SeqsUpTo(Wrappers, MaxWrappers), {NoLimit})

\* parser.py 145-324: step 2, parse_newsletters takes the next document
ParseDocument ==
    /\ rn.pc = "parse"
    /\ Len(rn.per_doc) < Len(rn.newsletters)
    /\ \E newsletter_doc \in {rn.newsletters[Len(rn.per_doc) + 1]} :
       \E r \in {ParseCachedStep([cache |-> parsed_cache,
                                  all_items |-> rn.items,
                                  per_doc |-> rn.per_doc,
                                  reads |-> rn.reads,
                                  writes |-> rn.writes],
                                 newsletter_doc)} :
           /\ parsed_cache' = r.cache
           /\ rn' = [rn EXCEPT !.items = r.all_items,
                               !.per_doc = r.per_doc,
                               !.reads = r.reads,
                               !.writes = r.writes]
    /\ UNCHANGED <<parseVars, dedupVars, callVars, page_cache, summary_cache,
                   hist>>

\* parser.py 326-327 and main.py 111-117: parse_newsletters returns
ParseReturn ==
    /\ rn.pc = "parse"
    /\ Len(rn.per_doc) = Len(rn.newsletters)
    /\ rn' = [rn EXCEPT !.pc = IF rn.items = <<>> THEN "done" ELSE "dedup",
                        !.exit = IF rn.items = <<>> THEN 0 ELSE NotReturned]
    /\ UNCHANGED <<parseVars, dedupVars, callVars, page_cache, parsed_cache,
                   summary_cache, hist>>

\* main.py 122-128: step 3
DeduplicateItems ==
    /\ rn.pc = "dedup"
    /\ \E unique \in {deduplicate_items(rn.items)} :
           rn' = [rn EXCEPT !.pc = IF unique = <<>> THEN "done" ELSE "filter",
                            !.exit = IF unique = <<>> THEN 0 ELSE NotReturned,
                            !.items = unique]
    /\ UNCHANGED <<parseVars, dedupVars, callVars, page_cache, parsed_cache,
                   summary_cache, hist>>

\* main.py 133-150: step 4 and the limit
FilterCrossPosted ==
    /\ rn.pc = "filter"
    /\ \E kept \in {filter_cross_posted_items(rn.items,
                                              SchoolBlogUrl).filtered_items} :
           rn' = [rn EXCEPT !.pc = IF kept = <<>> THEN "done"
                                   ELSE "summarize",
                            !.exit = IF kept = <<>> THEN 0 ELSE NotReturned,
                            !.items = ApplyLimit(kept, rn.limit)]
    /\ UNCHANGED <<parseVars, dedupVars, callVars, page_cache, parsed_cache,
                   summary_cache, hist>>

\* the items of rn.items summarized so far
Summarized == {i \in 1..Len(rn.items) : "summary" \in DOMAIN rn.items[i]}

\* summarizer.py 37-104: step 5, the next item is summarized; an exception
\* leaves summarize_items and process_school returns 1 (main.py 239-243);
\* hist.model_calls records the block_id of each item the model is asked for
Summarize(responses) ==
    /\ rn.pc = "summarize"
    /\ Cardinality(Summarized) < Len(rn.items)
    /\ \E response \in responses :
          \E i \in {Cardinality(Summarized) + 1} :
          \E r \in {SummarizeStep([cache |-> summary_cache,
                                   sreads |-> rn.sreads,
                                   swrites |-> rn.swrites],
                                  rn.items[i], response)} :
              /\ summary_cache' = r.cache
              /\ rn' = [rn EXCEPT !.items[i] = r.item,
                                  !.sreads = r.sreads,
                                  !.swrites = r.swrites,
                                  !.pc = IF r.raised THEN "done" ELSE @,
                                  !.exit = IF r.raised THEN 1 ELSE @]
              /\ hist' = [hist EXCEPT !.model_calls =
                             IF r.called
                             THEN Append(@, [block_id |->
                                                Get(rn.items[i], "block_id",
                                                    <<>>),
                                             raised |-> r.raised,
                                             summary |->
                                                IF r.raised THEN None
                                                ELSE r.item.summary])
                             ELSE @]
    /\ UNCHANGED <<parseVars, dedupVars, callVars, page_cache, parsed_cache>>

\* the model answers every request
SummarizeItem == Summarize(SummaryResponses)

\* summarizer.py 106-108 and main.py 160-230: summarize_items returns, the
\* items sorted newest first are written as JSON and as RSS, exit code 0
FinishRun ==
    /\ rn.pc = "summarize"
    /\ Cardinality(Summarized) = Len(rn.items)
    /\ \E sorted_items \in {SortedNewestFirst(rn.items, DatetimeMax)} :
           rn' = [rn EXCEPT !.pc = "done", !.exit = 0,
                            !.items = sorted_items,
                            !.json = sorted_items, !.rss = sorted_items]
    /\ UNCHANGED <<parseVars, dedupVars, callVars, page_cache, parsed_cache,
                   summary_cache, hist>>

NextRun ==
    \/ FetchNewsletters
    \/ ParseDocument
    \/ ParseReturn
    \/ DeduplicateItems
    \/ FilterCrossPosted
    \/ SummarizeItem
    \/ FinishRun

SpecRun == Init /\ [][NextRun]_vars

(***************************************************************************)
(* process_school with a limit and a model that can fail                   *)
(***************************************************************************)
MaxListed == 1

\* process_school(school, output_dir, limit) is called
ProcessSchool == StartRun(SeqsUpTo(Wrappers, MaxListed), RunLimits)

\* the request to the model can raise or be answered with an empty text
SummarizeOrFail ==
    Summarize(SummaryResponses \cup {EmptyResponse, ApiError})

NextSchool ==
    \/ ProcessSchool
    \/ ParseDocument
    \/ ParseReturn
    \/ DeduplicateItems
    \/ FilterCrossPosted
    \/ SummarizeOrFail
    \/ FinishRun

SpecSchool == Init /\ [][NextSchool]_vars

(***************************************************************************)
(* Segmentation properties (parse_newsletters, newsletter documents)       *)
(***************************************************************************)
IsNewsletterRun == newsletter # NoDoc /\ newsletter.type = "newsletter"

\* the step finalizes the accumulator: a separator/signature block is taken,
\* or the stream ends
Finalizing ==
    /\ pc = "blocks"
    /\ \/ pc' = "done"
       \/ /\ Len(stream') = Len(stream) + 1
          /\ stream'[Len(stream')].type \in SeparatorTypes

\* the accumulator has a non-empty title or a non-empty fragment list
AccumulatorHasContent ==
    /\ current_item # NoItem
    /\ LET fin == FinalizeItem(current_item, item_blocks, item_block_ids)
       IN  fin.title # <<>> \/ fin.blocks # <<>>

\* C1: whenever an accumulator is finalized (separator, signature or end of
\* stream) it is appended to the output if and only if it has a non-empty
\* title or a non-empty fragment list.
C1_EmittedIffHasContent ==
    [][Finalizing =>
         (Len(all_items') = Len(all_items) + 1 <=> AccumulatorHasContent)]_vars

\* the fragment a block contributes to its item
IsFragment(b) ==
    \/ b.type \in {"text.title", "text.paragraph", "items"}
    \/ b.type = "image.single" /\ b.img # NoImg

FragmentOf(b) ==
    IF b.type = "image.single"
    THEN [type |-> b.type, url |-> FullSizeImage(b.img), id |-> b.id]
    ELSE [type |-> b.type, content |-> Strip(b.text), id |-> b.id]

\* the maximal non-empty runs of fragments between separator/signature
\* blocks, in document order (run is the run being collected)
RECURSIVE FragmentRuns(_, _)
FragmentRuns(blocks, run) ==
    IF blocks = <<>>
    THEN IF run = <<>> THEN <<>> ELSE <<run>>
    ELSE LET b == Head(blocks)
         IN  IF b.type \in SeparatorTypes
             THEN (IF run = <<>> THEN <<>> ELSE <<run>>)
                  \o FragmentRuns(Tail(blocks), <<>>)
             ELSE FragmentRuns(Tail(blocks),
                               IF IsFragment(b) THEN Append(run, FragmentOf(b))
                               ELSE run)

\* C2: a finished newsletter yields exactly one item per maximal run of
\* content fragments between separators, in document order, each holding
\* exactly the fragments of its run, with or without data-block-ids.
C2_OneItemPerRun ==
    (pc = "done" /\ IsNewsletterRun) =>
        [i \in 1..Len(all_items) |-> all_items[i].blocks]
            = FragmentRuns(stream, <<>>)

\* a trailing separator or signature block
TrailingBlocks ==
    [type : SeparatorTypes, id : {<<>>, <<"s">>}, text : {<<>>}, img : {NoImg}]

\* C3: appending one trailing misc.separator or signature block to the
\* stream yields exactly the items of the stream without it.
C3_TrailingSeparatorNoChange ==
    (pc = "done" /\ IsNewsletterRun) =>
        \A sep \in TrailingBlocks :
            ParseNewsletter(newsletter, Append(stream, sep)) = all_items

\* the non-empty ids of the fragments of an item, in order
RECURSIVE FragmentIds(_)
FragmentIds(blocks) ==
    IF blocks = <<>> THEN <<>>
    ELSE (IF Head(blocks).id # <<>> THEN <<Head(blocks).id>> ELSE <<>>)
         \o FragmentIds(Tail(blocks))

\* C4: the block_id of every emitted newsletter item is the '-'-join, in
\* fragment order, of the non-empty ids of exactly the fragments in its
\* blocks list.
C4_BlockIdIsJoinOfFragmentIds ==
    IsNewsletterRun =>
        \A i \in 1..Len(all_items) :
            all_items[i].block_id
                = Join(FragmentIds(all_items[i].blocks), <<"-">>)

KnownTypes ==
    {"header", "misc.separator", "signature", "text.title", "text.paragraph",
     "image.single", "items"}

HasKnownType(b) == b.type \in KnownTypes

\* C5: deleting every block of an unlisted type from the stream leaves the
\* output of a finished newsletter unchanged.
C5_UnknownBlocksIgnored ==
    (pc = "done" /\ IsNewsletterRun) =>
        ParseNewsletter(newsletter, SelectSeq(stream, HasKnownType)) = all_items

(***************************************************************************)
(* Deduplication properties (deduplicate_items)                            *)
(***************************************************************************)
\* positions of the input items that are not discarded as noise
Surviving == {i \in 1..Len(items) : ~IsNoise(items[i])}

\* the identity keys of the surviving input items
SurvivingKeys == {_hash_item(items[i]) : i \in Surviving}

\* the non-null dates of the surviving input items with identity key k
DatesOf(k) ==
    {items[i].date : i \in {j \in Surviving : _hash_item(items[j]) = k}}
        \ {NoDate}

EarliestDate(k) == IF DatesOf(k) = {} THEN NoDate ELSE Min(DatesOf(k))

\* C6: for every identity key the returned list holds an item whose date is
\* the minimum of the non-null dates of the non-noise inputs with that key
\* (null only if none has a date), in whatever order the inputs come.
C6_EarliestDateKept ==
    dpc = "done" =>
        /\ \A k \in SurvivingKeys :
              \E j \in 1..Len(unique_items) : unique_items[j].hash = k
        /\ \A j \in 1..Len(unique_items) :
              unique_items[j].date = EarliestDate(unique_items[j].hash)

\* a later-processed duplicate carried the earlier date and won
C6_Witness ==
    /\ dpc = "done"
    /\ \E i, j \in Surviving :
          /\ i < j
          /\ _hash_item(items[i]) = _hash_item(items[j])
          /\ items[i].date = 10
          /\ items[j].date = 5
          /\ \E u \in 1..Len(unique_items) :
                /\ unique_items[u].hash = _hash_item(items[j])
                /\ unique_items[u].date = 5

\* C7: the returned list holds exactly one item per distinct identity key of
\* the non-noise inputs; a group whose members all lack a date still yields
\* its item.
C7_OneItemPerKey ==
    dpc = "done" =>
        /\ \A i, j \in 1..Len(unique_items) :
              i # j => unique_items[i].hash # unique_items[j].hash
        /\ {unique_items[j].hash : j \in 1..Len(unique_items)} = SurvivingKeys
        /\ \A j \in 1..Len(unique_items) :
              _hash_item(unique_items[j]) = unique_items[j].hash

\* two undated duplicates and one item of another key: two items returned
C7_Witness ==
    /\ dpc = "done"
    /\ Len(unique_items) = 2
    /\ \E i, j \in Surviving :
          /\ i # j
          /\ _hash_item(items[i]) = _hash_item(items[j])
          /\ DatesOf(_hash_item(items[i])) = {}

\* the title contains one of the denylist patterns, compared without case
MatchesDenylist(title) ==
    \E pattern \in footer_only_patterns : Contains(LowerStr(title), pattern)

\* the title contains the icon glyph name, compared without case
HasIconGlyph(title) == Contains(LowerStr(title), ZoomOutMap)

\* C8 as stated: no returned item has a title containing a denylist pattern,
\* whatever else the title holds.
C8_DenylistTitleDiscarded ==
    dpc = "done" =>
        \A j \in 1..Len(unique_items) : ~MatchesDenylist(unique_items[j].title)

\* C8 amended: no returned item has a title containing both 'zoom_out_map'
\* and a denylist pattern (compared case-insensitively); every such input
\* item is logged as filtered instead.
C8_FooterTitleDiscarded ==
    dpc = "done" =>
        /\ \A j \in 1..Len(unique_items) :
              ~(HasIconGlyph(unique_items[j].title)
                /\ MatchesDenylist(unique_items[j].title))
        /\ Len(filtered_items)
              = Cardinality({i \in 1..Len(items) :
                               /\ HasIconGlyph(items[i].title)
                               /\ MatchesDenylist(items[i].title)})

\* a mixed-case footer item with block ids was discarded, a real item kept
C8_Witness ==
    /\ dpc = "done"
    /\ \E i \in 1..Len(items) :
          items[i].title = TitleFooter /\ items[i].block_id # <<>>
    /\ Len(filtered_items) > 0
    /\ Len(unique_items) > 0

(***************************************************************************)
(* Cross-post filter properties (filter_cross_posted_items)                *)
(***************************************************************************)
\* the url with a trailing slash added when missing
WithTrailingSlash(url) ==
    IF Len(url) > 0 /\ url[Len(url)] = "/" THEN url ELSE Append(url, "/")

\* the item has no origin, or its origin names the current blog
BelongsToCurrentBlog(item) ==
    LET origin == Get(item, "origin_blog_url", None)
    IN  \/ origin = None
        \/ WithTrailingSlash(origin) = WithTrailingSlash(fc.current_blog_url)

\* C9: an item is kept if and only if it has no origin_blog_url or its
\* origin, with a trailing slash added when missing, equals current_blog_url
\* with a trailing slash added when missing.
C9_KeptIffSameBlog ==
    fc.done =>
        /\ fc.filtered_items = SelectSeq(fc.items, BelongsToCurrentBlog)
        /\ fc.count = Len(fc.items) - Len(fc.filtered_items)

\* a feed url without trailing slash kept its own post and lost a cross-post
C9_Witness ==
    /\ fc.done
    /\ fc.current_blog_url = TalawandaOrg \o TmsSlug
    /\ fc.count = 1
    /\ \E i \in 1..Len(fc.filtered_items) :
          Get(fc.filtered_items[i], "origin_blog_url", None)
              = TalawandaOrg \o TmsSlug \o <<"/">>

(***************************************************************************)
(* Blog post properties (parse_newsletters, blog_post documents)           *)
(***************************************************************************)
IsBlogPostRun ==
    pc = "done" /\ newsletter # NoDoc /\ newsletter.type = "blog_post"

\* exactly one item: key 'blog_post_' + url, declared title, one raw body
OneBlogItem ==
    /\ Len(all_items) = 1
    /\ all_items[1].block_id = BlogPostPrefix \o newsletter.url
    /\ all_items[1].title = newsletter.title
    /\ Len(all_items[1].blocks) = 1
    /\ all_items[1].blocks[1].type = "blog_post_content"
    /\ all_items[1].blocks[1].content = Strip(newsletter.soup.text)

Normalized(title) ==
    LET words == Split(title)
        mid == Len(words) \div 2
    IN  IF /\ Len(words) % 2 = 0
           /\ SubSeq(words, 1, mid) = SubSeq(words, mid + 1, Len(words))
        THEN Join(SubSeq(words, 1, mid), <<" ">>)
        ELSE Join(words, <<" ">>)

\* the longest prefix of whole words that is no longer than the limit
LongestWordPrefix(title) ==
    LET words == Split(title)
        fits == {k \in 0..Len(words) :
                   Len(Join(SubSeq(words, 1, k), <<" ">>)) <= TitleLimit}
    IN  Join(SubSeq(words, 1, Max(fits)), <<" ">>)

\* C14: a title that is longer than 100 characters once collapsed and
\* de-duplicated comes back as its longest prefix of whole words of at most
\* 100 characters followed by "...", and is never longer than 103 characters.
C14_TruncatesAtWordBoundary ==
    (tc.done /\ Len(Normalized(tc.title)) > TitleLimit) =>
        /\ tc.result = LongestWordPrefix(Normalized(tc.title)) \o <<".", ".", ".">>
        /\ Len(tc.result) <= TitleLimit + 3

\* C15: for a title of at most 100 characters the result is the first half
\* of its words when the word count is even and the two halves are equal,
\* and otherwise the collapsed, trimmed title with every word kept.
C15_SelfDuplicationRemoved ==
    (tc.done /\ Len(tc.title) <= TitleLimit) =>
        tc.result = Normalized(tc.title)

\* a four-word title "Go Day Go Day", spread over lines, was halved
C15_Witness ==
    /\ tc.done
    /\ Len(tc.title) <= TitleLimit
    /\ Split(tc.title) = <<<<"G", "o">>, <<"D", "a", "y">>, <<"G", "o">>, <<"D", "a", "y">>>>
    /\ Contains(tc.title, <<"\n">>)
    /\ tc.result = <<"G", "o", " ", "D", "a", "y">>

(***************************************************************************)
(* Header and title properties (parse_newsletters, newsletter documents)   *)
(***************************************************************************)
\* the stream with every header block deleted
WithoutHeaders(blocks) == SelectSeq(blocks, LAMBDA b : b.type # "header")

\* C16: header blocks are transparent: at every point of the loop the
\* accumulators, and at the end the emitted items, are those of the same
\* stream with every header block deleted.
C16_HeaderTransparent ==
    IsNewsletterRun =>
        IF pc = "done"
        THEN all_items = ParseNewsletter(newsletter, WithoutHeaders(stream))
        ELSE LoopState = RunLoop(newsletter, StartState, WithoutHeaders(stream))

\* a header with an id stood between the title and the paragraph of an item
C16_Witness ==
    /\ IsNewsletterRun
    /\ pc = "done"
    /\ Len(stream) = 3
    /\ stream[1].type = "text.title" /\ stream[1].text # <<>>
    /\ stream[2].type = "header" /\ stream[2].id # <<>>
    /\ stream[3].type = "text.paragraph" /\ stream[3].id # <<>>
    /\ Len(all_items) = 1
    /\ Len(all_items[1].blocks) = 2

\* the text.title fragments of an item that carry text
TitledFragments(blocks) ==
    {i \in 1..Len(blocks) :
        blocks[i].type = "text.title" /\ blocks[i].content # <<>>}

FirstTitleWins(title, blocks) ==
    TitledFragments(blocks) # {} =>
        title = clean_title(blocks[Min(TitledFragments(blocks))].content)

\* C17: at every point of the segmentation, the item being built and every
\* item emitted has, if it holds text.title fragments with text, the
\* clean_title of the first of them as its title; later ones are fragments.
C17_FirstTitleWins ==
    IsNewsletterRun =>
        /\ current_item # NoItem =>
              FirstTitleWins(current_item.title, item_blocks)
        /\ \A i \in 1..Len(all_items) :
              FirstTitleWins(all_items[i].title, all_items[i].blocks)

\* an emitted item holds two title fragments with different texts
C17_Witness ==
    /\ IsNewsletterRun
    /\ pc = "done"
    /\ \E i \in 1..Len(all_items) :
          LET blocks == all_items[i].blocks
          IN  /\ Cardinality(TitledFragments(blocks)) >= 2
              /\ \E j, k \in TitledFragments(blocks) :
                    j < k /\ blocks[j].content # blocks[k].content
                    /\ all_items[i].title = clean_title(blocks[j].content)

(***************************************************************************)
(* Representative and fallback-key properties (deduplicate_items)          *)
(***************************************************************************)
\* the processed, non-noise items of identity key k, by position
MembersOf(k) == {i \in Surviving : _hash_item(items[i]) = k}

\* the member the group of key k is to be represented by
RepresentativeOf(k) ==
    LET dated == {i \in MembersOf(k) : items[i].date # NoDate}
    IN  IF dated = {} THEN Min(MembersOf(k))
        ELSE Min({i \in dated : items[i].date = EarliestDate(k)})

IsRepresentative(u) ==
    /\ "hash" \in DOMAIN u
    /\ MembersOf(u.hash) # {}
    /\ u = WithHash(items[RepresentativeOf(u.hash)], u.hash)

\* C18: every item kept (in items_by_hash while the loop runs, in the list
\* returned at the end) is, field for field and with only the hash added,
\* the first-processed member of its group among those of earliest date, or
\* the first-processed member when no member of the group has a date.
C18_RepresentativeIsOneMember ==
    /\ \A e \in 1..Len(items_by_hash) : IsRepresentative(items_by_hash[e].v)
    /\ dpc = "done" =>
          \A u \in 1..Len(unique_items) : IsRepresentative(unique_items[u])

\* a group of three: an undated member, then two different members of one
\* date; the second one processed is the one returned
C18_Witness ==
    /\ dpc = "done"
    /\ Len(items) = 3
    /\ Cardinality(SurvivingKeys) = 1
    /\ Surviving = {1, 2, 3}
    /\ items[1].date = NoDate
    /\ items[2].date # NoDate
    /\ items[3].date = items[2].date
    /\ items[3].title # items[2].title
    /\ unique_items = <<WithHash(items[2], _hash_item(items[2]))>>

\* the texts of an item's fragments, in order
RECURSIVE FragmentTexts(_)
FragmentTexts(blocks) ==
    IF blocks = <<>> THEN <<>>
    ELSE (IF "content" \in DOMAIN Head(blocks) THEN <<Head(blocks).content>>
          ELSE <<>>)
         \o FragmentTexts(Tail(blocks))

\* two processed items without block ids, equal in title and fragment texts
SameFallbackContent(i, j) ==
    /\ items[i].block_id = <<>>
    /\ items[j].block_id = <<>>
    /\ items[i].title = items[j].title
    /\ FragmentTexts(items[i].blocks) = FragmentTexts(items[j].blocks)

MergedIntoOne(i, j) ==
    /\ _hash_item(items[i]) = _hash_item(items[j])
    /\ Cardinality({u \in 1..Len(unique_items) :
                       unique_items[u].hash = _hash_item(items[i])}) = 1

\* C19 as stated: any two items without block ids and with identical title
\* and fragment texts get the same fallback key and come out as one item.
C19_SameContentMerged ==
    dpc = "done" =>
        \A i, j \in 1..Len(items) :
            (i < j /\ SameFallbackContent(i, j)) => MergedIntoOne(i, j)

\* C19 amended: the same, for items that are not footer branding (a title
\* with the zoom_out_map glyph and a footer pattern), which are discarded.
C19_SameContentMergedUnlessFooter ==
    dpc = "done" =>
        \A i, j \in 1..Len(items) :
            (/\ i < j
             /\ SameFallbackContent(i, j)
             /\ ~(HasIconGlyph(items[i].title) /\ MatchesDenylist(items[i].title)))
            => MergedIntoOne(i, j)

\* two id-less items of one title and text but different dates were merged
C19_Witness ==
    /\ dpc = "done"
    /\ Len(items) = 2
    /\ SameFallbackContent(1, 2)
    /\ items[1].date # items[2].date
    /\ Len(unique_items) = 1
    /\ unique_items[1].hash = _hash_item(items[2])

(***************************************************************************)
(* Event properties (_generate_summary)                                    *)
(***************************************************************************)
HasLine(block, key) == \E i \in 1..Len(block) : block[i].k = key

LineOf(block, key) ==
    IF HasLine(block, key)
    THEN block[CHOOSE i \in 1..Len(block) : block[i].k = key].v
    ELSE Unknown

\* "HH:MM" with a valid hour and minute
IsClockTime(t) ==
    /\ Len(SplitOnColon(t)) = 2
    /\ ParseInt(SplitOnColon(t)[1]) \in 0..23
    /\ ParseInt(SplitOnColon(t)[2]) \in 0..59

\* the date at the clock time, or at whenUnknown when the time is "unknown"
At(date, t, whenUnknown) ==
    WithTime(FromIsoFormat(date),
             SplitOnColon(IF t = Unknown THEN whenUnknown ELSE t))

\* the first event block of the response is read and carries DATE, a TIME
\* and END_TIME that are clock times or "unknown", and an END_DATE line
EventWithEndDate ==
    /\ ev.done
    /\ ev.response.num_events >= 1
    /\ ev.response.event_blocks # <<>>
    /\ LET b == ev.response.event_blocks[1]
       IN  /\ HasLine(b, "DATE") /\ FromIsoFormat(LineOf(b, "DATE")) # Invalid
           /\ HasLine(b, "END_DATE")
           /\ LineOf(b, "TIME") = Unknown \/ IsClockTime(LineOf(b, "TIME"))
           /\ LineOf(b, "END_TIME") = Unknown
                 \/ IsClockTime(LineOf(b, "END_TIME"))

\* C20: an event block with a valid END_DATE gives an event from DATE at
\* TIME to END_DATE at END_TIME, or to 23:59 of END_DATE when END_TIME is
\* unknown; with an END_DATE that is not a date the event ends one hour
\* after its start.
C20_EventEndsOnEndDate ==
    EventWithEndDate =>
        LET b == ev.response.event_blocks[1]
            start == At(LineOf(b, "DATE"), LineOf(b, "TIME"),
                        <<"0", "0", ":", "0", "0">>)
        IN  /\ "event_info" \in DOMAIN ev.result
            /\ ev.result.event_info[1].start = start
            /\ ev.result.event_info[1].end =
                  IF FromIsoFormat(LineOf(b, "END_DATE")) # Invalid
                  THEN At(LineOf(b, "END_DATE"), LineOf(b, "END_TIME"),
                          <<"2", "3", ":", "5", "9">>)
                  ELSE PlusOneHour(start)

(***************************************************************************)
(* C11: the parse cache is a pure optimization                             *)
(***************************************************************************)
\* the documents of the current run parse_newsletters has gone through
ParsedDocs == 1..Len(rn.per_doc)

\* C11: in every run, the items parse_newsletters returns for a document,
\* with the cache enabled, are the items parsing that document afresh
\* yields, date of the document as supplied in that run included
C11_CacheIsPureOptimization ==
    \A i \in ParsedDocs : rn.per_doc[i] = ParseDoc(rn.newsletters[i])

(***************************************************************************)
(* C12: the block_ids of a document parsed twice in succession             *)
(***************************************************************************)
\* the block_id values of a list of items, in order
BlockIds(its) == [k \in 1..Len(its) |-> its[k].block_id]

\* the documents of the previous run parse_newsletters went through
PreviousDocs == 1..Len(hist.per_doc)

\* the cache key of document i of this run was not written in this run:
\* its items came out of the parse cache
ServedFromCache(i) == _get_newsletter_cache_key(rn.newsletters[i]) \notin
                          {rn.writes[k] : k \in 1..Len(rn.writes)}

\* C12: a document parsed in two successive runs, or twice in one run,
\* yields items with the same block_id values in the same order, whether
\* or not the second parse is served from the parse cache
C12_SameBlockIdsOnRerun ==
    /\ \A i \in ParsedDocs, j \in PreviousDocs :
          rn.newsletters[i].url = hist.newsletters[j].url
              => BlockIds(rn.per_doc[i]) = BlockIds(hist.per_doc[j])
    /\ \A i \in ParsedDocs, j \in ParsedDocs :
          rn.newsletters[i].url = rn.newsletters[j].url
              => BlockIds(rn.per_doc[i]) = BlockIds(rn.per_doc[j])

\* a second run has returned, from the cache, the items of a document the
\* first run parsed, and they carry a block_id
C12_Witness ==
    /\ rn.n = 2
    /\ \E i \in ParsedDocs, j \in PreviousDocs :
          /\ rn.newsletters[i].url = hist.newsletters[j].url
          /\ ServedFromCache(i)
          /\ rn.per_doc[i] # <<>>
          /\ \A k \in 1..Len(rn.per_doc[i]) : rn.per_doc[i][k].block_id # <<>>

(***************************************************************************)
(* C13: cache keys read and written once per run                           *)
(***************************************************************************)
\* no value occurs twice in the sequence
NoRepeat(q) == \A a, b \in 1..Len(q) : q[a] = q[b] => a = b

\* C13: within one run every parse-cache key and every summary-cache key
\* is read at most once and written at most once
C13_KeysTouchedOncePerRun ==
    /\ NoRepeat(rn.reads)
    /\ NoRepeat(rn.writes)
    /\ NoRepeat(rn.sreads)
    /\ NoRepeat(rn.swrites)

(***************************************************************************)
(* C21: malformed event blocks are skipped                                 *)
(***************************************************************************)
\* "H:M" whose hour or minute is out of range
OutOfRange(t) == Len(SplitOnColon(t)) = 2 /\ ~IsClockTime(t)

\* an event block whose DATE is "unknown" or no ISO date, or whose TIME or
\* END_TIME has an out-of-range hour or minute
Malformed(b) ==
    \/ /\ HasLine(b, "DATE")
       /\ \/ LineOf(b, "DATE") = Unknown
          \/ FromIsoFormat(LineOf(b, "DATE")) = Invalid
    \/ HasLine(b, "TIME") /\ OutOfRange(LineOf(b, "TIME"))
    \/ HasLine(b, "END_TIME") /\ OutOfRange(LineOf(b, "END_TIME"))

\* event_blocks[:num_events], the blocks the loop goes through
TakenBlocks ==
    IF ev.response.num_events > 0
    THEN Take(ev.response.event_blocks, ev.response.num_events)
    ELSE <<>>

\* the events of a result: its event_info, nothing when the key is absent
EventsOf(result) ==
    IF result = OverflowError THEN OverflowError
    ELSE IF "event_info" \in DOMAIN result THEN result.event_info
    ELSE <<>>

\* the response without the malformed blocks among those the loop reads
WithoutMalformed ==
    [ev.response EXCEPT
        !.event_blocks = SelectSeq(TakenBlocks, LAMBDA b : ~Malformed(b))]

Unreserved ==
    {"a", "b", "c", "d", "e", "f", "g", "h", "i", "j", "k", "l", "m", "n",
     "o", "p", "q", "r", "s", "t", "u", "v", "w", "x", "y", "z", "A", "B",
     "C", "D", "E", "F", "G", "H", "I", "J", "K", "L", "M", "N", "O", "P",
     "Q", "R", "S", "T", "U", "V", "W", "X", "Y", "Z", "0", "1", "2", "3",
     "4", "5", "6", "7", "8", "9", "_", ".", "-", "~", "/"}

\* the two hexadecimal digits of the characters the events use
PercentCode(c) ==
    CASE c = " " -> <<"2", "0">>
      [] c = ":" -> <<"3", "A">>
      [] c = "\n" -> <<"0", "A">>

\* calendar_helper.py 99-101: quote(s)
Quote(s) ==
    LET escaped == {j \in 1..Len(s) : s[j] \notin Unreserved}
        \* the characters written for s[1..i-1]
        Before(i) == (i - 1) + 2 * Cardinality({j \in escaped : j < i})
        Width(i) == IF i \in escaped THEN 3 ELSE 1
        Source(k) == CHOOSE i \in 1..Len(s) :
                        Before(i) < k /\ k <= Before(i) + Width(i)
    IN  [k \in 1..(Len(s) + 2 * Cardinality(escaped)) |->
            IF Source(k) \in escaped
            THEN (<<"%">> \o PercentCode(s[Source(k)]))[k - Before(Source(k))]
            ELSE s[Source(k)]]

\* "%02d" and "%04d"
Pad2(n) == <<DigitChars[((n \div 10) % 10) + 1], DigitChars[(n % 10) + 1]>>
Pad4(n) == Pad2(n \div 100) \o Pad2(n % 100)

\* calendar_helper.py 107-111: dt.strftime('%Y%m%dT%H%M%S')
StrfTime(dt) ==
    Pad4(dt.year) \o Pad2(dt.month) \o Pad2(dt.day) \o <<"T">>
        \o Pad2(dt.hour) \o Pad2(dt.minute) \o Pad2(dt.second)

GoogleBase ==
    <<"h", "t", "t", "p", "s", ":", "/", "/", "c", "a", "l", "e", "n", "d",
      "a", "r", ".", "g", "o", "o", "g", "l", "e", ".", "c", "o", "m", "/",
      "c", "a", "l", "e", "n", "d", "a", "r", "/", "r", "e", "n", "d", "e",
      "r", "?", "a", "c", "t", "i", "o", "n", "=", "T", "E", "M", "P", "L",
      "A", "T", "E", "&", "t", "e", "x", "t", "=">>
OutlookBase ==
    <<"h", "t", "t", "p", "s", ":", "/", "/", "o", "u", "t", "l", "o", "o",
      "k", ".", "l", "i", "v", "e", ".", "c", "o", "m", "/", "c", "a", "l",
      "e", "n", "d", "a", "r", "/", "0", "/", "d", "e", "e", "p", "l", "i",
      "n", "k", "/", "c", "o", "m", "p", "o", "s", "e", "?", "s", "u", "b",
      "j", "e", "c", "t", "=">>

\* calendar_helper.py 116-125: the iCal text
ICalContent(event_info, start_ical, end_ical) ==
    <<"B", "E", "G", "I", "N", ":", "V", "C", "A", "L", "E", "N", "D", "A",
      "R", "\n", "V", "E", "R", "S", "I", "O", "N", ":", "2", ".", "0",
      "\n", "B", "E", "G", "I", "N", ":", "V", "E", "V", "E", "N", "T",
      "\n", "D", "T", "S", "T", "A", "R", "T", ":">>
        \o start_ical \o <<"\n", "D", "T", "E", "N", "D", ":">> \o end_ical
        \o <<"\n", "S", "U", "M", "M", "A", "R", "Y", ":">> \o event_info.title
        \o <<"\n", "D", "E", "S", "C", "R", "I", "P", "T", "I", "O", "N", ":">>
        \o Get(event_info, "description", <<>>)
        \o <<"\n", "L", "O", "C", "A", "T", "I", "O", "N", ":">> \o Get(event_info, "location", <<>>)
        \o <<"\n", "E", "N", "D", ":", "V", "E", "V", "E", "N", "T", "\n",
          "E", "N", "D", ":", "V", "C", "A", "L", "E", "N", "D", "A", "R">>

\* calendar_helper.py 89-138
generate_calendar_links(event_info) ==
    LET title == Quote(event_info.title)
        description == Quote(Get(event_info, "description", <<>>))
        location == Quote(Get(event_info, "location", <<>>))
        start_google == StrfTime(event_info.start)
        end_google == StrfTime(event_info.end)
        start_ical == StrfTime(event_info.start)
        end_ical == StrfTime(event_info.end)
    IN  [google |->
             GoogleBase \o title \o <<"&", "d", "a", "t", "e", "s", "=">> \o start_google
                 \o <<"/">> \o end_google
                 \o <<"&", "d", "e", "t", "a", "i", "l", "s", "=">>
                 \o description
                 \o <<"&", "l", "o", "c", "a", "t", "i", "o", "n", "=">> \o location,
         ical |->
             <<"d", "a", "t", "a", ":", "t", "e", "x", "t", "/", "c", "a",
               "l", "e", "n", "d", "a", "r", ";", "c", "h", "a", "r", "s",
               "e", "t", "=", "u", "t", "f", "-", "8", ",">>
                 \o Quote(ICalContent(event_info, start_ical, end_ical)),
         outlook |->
             OutlookBase \o title
                 \o <<"&", "s", "t", "a", "r", "t", "d", "t", "=">>
                 \o start_google \o <<"&", "e", "n", "d", "d", "t", "=">>
                 \o end_google \o <<"&", "b", "o", "d", "y", "=">> \o description
                 \o <<"&", "l", "o", "c", "a", "t", "i", "o", "n", "=">> \o location]

\* the days the events start and end on
CalendarDays ==
    {[year |-> 2025, month |-> 11, day |-> 20],
     [year |-> 2025, month |-> 11, day |-> 22],
     [year |-> 2025, month |-> 11, day |-> 30],
     [year |-> 2025, month |-> 12, day |-> 31],
     [year |-> 2026, month |-> 1, day |-> 1]}

DayKey(d) == d.year * 10000 + d.month * 100 + d.day

\* midnight and 18:00; 23:59 and 20:00
StartClocks == {[hour |-> 0, minute |-> 0], [hour |-> 18, minute |-> 0]}
EndClocks == {[hour |-> 23, minute |-> 59], [hour |-> 20, minute |-> 0]}

\* datetime(year, month, day, hour, minute)
DateTime(d, c) ==
    [year |-> d.year, month |-> d.month, day |-> d.day,
     hour |-> c.hour, minute |-> c.minute, second |-> 0]

\* an event does not end on a day before it starts
DayPairs ==
    {p \in CalendarDays \X CalendarDays : DayKey(p[1]) <= DayKey(p[2])}

CalendarEvents ==
    {[title |-> <<"P", "D", " ", "D", "a", "y">>,
      start |-> DateTime(p[1], sc), end |-> DateTime(p[2], ec),
      description |-> <<"N", "o", " ", "s", "c", "h", "o", "o", "l">>,
      location |-> <<"T", "H", "S">>] :
        p \in DayPairs, sc \in StartClocks, ec \in EndClocks}

CalendarInit ==
    /\ ParseInit
    /\ DedupIdle
    /\ FilterIdle
    /\ TitleIdle
    /\ EventIdle
    /\ RunIdle
    /\ InvalidatorIdle
    /\ LimiterIdle
    /\ LinksIdle
    /\ LimitIdle
    /\ \E e \in CalendarEvents :
          cal = [done |-> FALSE, event_info |-> e, links |-> <<>>]

\* calendar_helper.py 89-138: the links of the event are returned
GenerateCalendarLinks ==
    /\ ~cal.done
    /\ cal' = [cal EXCEPT !.done = TRUE,
                          !.links = generate_calendar_links(cal.event_info)]
    /\ UNCHANGED <<coreVars, inv, rl, pg, lm>>

NextCalendar == GenerateCalendarLinks

SpecCalendar == CalendarInit /\ [][NextCalendar]_vars

(***************************************************************************)
(* C22: all-day events in the Google link                                  *)
(***************************************************************************)
\* from 00:00 to 23:59 of the same or a later day
IsAllDay(e) ==
    /\ e.start.hour = 0 /\ e.start.minute = 0
    /\ e.end.hour = 23 /\ e.end.minute = 59

DaysInMonth(year, month) ==
    IF month \in {4, 6, 9, 11} THEN 30
    ELSE IF month # 2 THEN 31
    ELSE IF year % 4 = 0 /\ (year % 100 # 0 \/ year % 400 = 0) THEN 29
    ELSE 28

\* the day after d
NextDay(d) ==
    IF d.day < DaysInMonth(d.year, d.month) THEN [d EXCEPT !.day = @ + 1]
    ELSE IF d.month < 12 THEN [d EXCEPT !.month = @ + 1, !.day = 1]
    ELSE [d EXCEPT !.year = @ + 1, !.month = 1, !.day = 1]

\* YYYYMMDD
DateOnly(d) == Pad4(d.year) \o Pad2(d.month) \o Pad2(d.day)

\* the dates parameter the Google link is to carry
ExpectedGoogleDates(e) ==
    IF IsAllDay(e)
    THEN DateOnly(e.start) \o <<"/">> \o DateOnly(NextDay(e.end))
    ELSE StrfTime(e.start) \o <<"/">> \o StrfTime(e.end)

\* C22: the Google link of an event from 00:00 to 23:59 carries the start
\* date and the day after the end day, both without a time; the link of
\* every other event carries start and end as YYYYMMDDTHHMMSS
C22_AllDayUsesDateOnly ==
    cal.done =>
        Contains(cal.links.google,
                 <<"&", "d", "a", "t", "e", "s", "=">> \o ExpectedGoogleDates(cal.event_info)
                     \o <<"&", "d", "e", "t", "a", "i", "l", "s", "=">>)

(***************************************************************************)
(* get_cache_files_for_block_ids (common/cache_invalidator.py)             *)
(***************************************************************************)
\* common/cache.py 23-25: injective in the url
get_cache_key(url) == <<"md5:">> \o url

\* the file <dir>/<name>.json
CacheFile(dir, name) == [dir |-> dir, name |-> name]

\* cache_invalidator.py 194-272. index maps block_id to metadata, existing
\* is the set of files on disk; a list of files is given as the set of its
\* members (each list is filled from a set, without duplicates)
get_cache_files_for_block_ids(block_ids, index, cache_types, existing) ==
    LET requested ==
            IF \E i \in 1..Len(cache_types) : cache_types[i] = "all"
            THEN <<"newsletters", "parsed", "summaries">>
            ELSE cache_types
        Requested(t) == \E i \in 1..Len(requested) : requested[i] = t
        \* lines 222-228: metadata found and source_url set
        with_url == {b \in block_ids :
                       b \in DOMAIN index /\ index[b].source_url # None}
        summary_files ==
            {CacheFile("summaries", sanitize_cache_filename(b)) :
                b \in with_url} \cap existing
        parsed_files ==
            {CacheFile("parsed", get_cache_key(index[b].source_url)) :
                b \in with_url} \cap existing
        newsletter_files ==
            {CacheFile("newsletters", get_cache_key(index[b].source_url)) :
                b \in with_url} \cap existing
    IN  IF Requested("newsletters")
        THEN [newsletters |-> newsletter_files, parsed |-> parsed_files,
              summaries |-> summary_files]
        ELSE IF Requested("parsed")
        THEN [newsletters |-> {}, parsed |-> parsed_files,
              summaries |-> summary_files]
        ELSE IF Requested("summaries")
        THEN [newsletters |-> {}, parsed |-> {}, summaries |-> summary_files]
        ELSE [newsletters |-> {}, parsed |-> {}, summaries |-> {}]

\* block_ids of the output files, and one no output file holds
IdB1 == <<"b", "1">>
IdB2 == <<"b", "2">>
IdB3 == <<"b", "3">>
IdB4 == <<"b", "4">>
IdUnindexed == <<"b", "x">>

\* the correlation index: two items of one newsletter, one item of another
\* newsletter and one item without source_url
CorrelationIndex ==
    [b \in {IdB1, IdB2, IdB3, IdB4} |->
        [block_id |-> b,
         source_url |-> IF b \in {IdB1, IdB2} THEN SmoreUrl
                        ELSE IF b = IdB3 THEN SmoreUrl2
                        ELSE None]]

\* every cache file an indexed item can have
PossibleFiles ==
    {CacheFile("summaries", sanitize_cache_filename(b)) :
        b \in {IdB1, IdB2, IdB3}}
    \cup {CacheFile(d, get_cache_key(u)) :
             d \in {"parsed", "newsletters"}, u \in {SmoreUrl, SmoreUrl2}}

\* --cache-type
CacheTypes == {<<"newsletters">>, <<"parsed">>, <<"summaries">>, <<"all">>}

InvalidatorInit ==
    /\ ParseInit
    /\ DedupIdle
    /\ FilterIdle
    /\ TitleIdle
    /\ EventIdle
    /\ RunIdle
    /\ CalendarIdle
    /\ LimiterIdle
    /\ LinksIdle
    /\ LimitIdle
    /\ \E ids \in SUBSET {IdB1, IdB2, IdB3, IdB4, IdUnindexed},
          types \in CacheTypes, existing \in SUBSET PossibleFiles :
          inv = [done |-> FALSE, block_ids |-> ids, cache_types |-> types,
                 index |-> CorrelationIndex, existing |-> existing,
                 files_to_delete |-> <<>>]

\* cache_invalidator.py 194-272: the files to delete are returned
GetCacheFiles ==
    /\ ~inv.done
    /\ inv' = [inv EXCEPT
                  !.done = TRUE,
                  !.files_to_delete =
                      get_cache_files_for_block_ids(
                          inv.block_ids, inv.index, inv.cache_types,
                          inv.existing)]
    /\ UNCHANGED <<coreVars, cal, rl, pg, lm>>

NextInvalidator == GetCacheFiles

SpecInvalidator == InvalidatorInit /\ [][NextInvalidator]_vars

(***************************************************************************)
(* C23: invalidation cascades to the summaries                             *)
(***************************************************************************)
\* the indexed items derived from the document the cache file f holds
DerivedFrom(f) ==
    {b \in DOMAIN inv.index :
        /\ inv.index[b].source_url # None
        /\ get_cache_key(inv.index[b].source_url) = f.name}

\* C23: with a newsletter or parsed cache file, the existing summary file
\* of every indexed item derived from it is selected too; cache type
\* 'parsed' selects no newsletter file, 'summaries' only summary files
C23_CascadeComplete ==
    inv.done =>
        /\ \A f \in inv.files_to_delete.newsletters
                        \cup inv.files_to_delete.parsed :
              \A b \in DerivedFrom(f) :
                 CacheFile("summaries", sanitize_cache_filename(b))
                         \in inv.existing
                     => CacheFile("summaries", sanitize_cache_filename(b))
                            \in inv.files_to_delete.summaries
        /\ inv.cache_types = <<"parsed">>
               => inv.files_to_delete.newsletters = {}
        /\ inv.cache_types = <<"summaries">>
               => /\ inv.files_to_delete.newsletters = {}
                  /\ inv.files_to_delete.parsed = {}

(***************************************************************************)
(* RateLimiter (common/rate_limiter.py) over a clock of whole seconds      *)
(***************************************************************************)
MaxRequests == 2
MaxWindow == 2
MaxTime == 4
MaxCalls == 5

\* urlparse(url).netloc of the urls requested
Hosts == {"www.smore.com", "www.talawanda.org"}

\* no request recorded yet
NoRequest == [host |-> "none"]

\* rate_limiter.py 29-30, 40-41: popleft() while the oldest timestamp is
\* older than the bound
RECURSIVE PopOld(_, _)
PopOld(q, bound) ==
    IF q # <<>> /\ Head(q) < bound THEN PopOld(Tail(q), bound) ELSE q

\* rate_limiter.py 17-21, at clock 0
LimiterInit ==
    /\ ParseInit
    /\ DedupIdle
    /\ FilterIdle
    /\ TitleIdle
    /\ EventIdle
    /\ RunIdle
    /\ CalendarIdle
    /\ InvalidatorIdle
    /\ LinksIdle
    /\ LimitIdle
    /\ \E max_requests \in 1..MaxRequests, time_window \in 1..MaxWindow :
          rl = [made |-> TRUE, max_requests |-> max_requests,
                time_window |-> time_window,
                requests |-> [h \in Hosts |-> <<>>],
                clock |-> 0, calls |-> 0, last |-> NoRequest]

\* time passes between two calls
Tick ==
    /\ rl.made
    /\ rl.clock < MaxTime
    /\ rl' = [rl EXCEPT !.clock = @ + 1]
    /\ UNCHANGED <<coreVars, cal, inv, pg, lm>>

\* rate_limiter.py 23-44: wait_if_needed(url) for a url of the host; the
\* sleep lasts exactly wait_time
WaitIfNeeded(host) ==
    /\ rl.made
    /\ LET now == rl.clock
           purged == PopOld(rl.requests[host], now - rl.time_window)
           limited == Len(purged) >= rl.max_requests
           wait_time == IF limited
                        THEN (Head(purged) + rl.time_window) - now
                        ELSE 0
           sleeps == limited /\ wait_time > 0
           after == IF sleeps THEN now + wait_time ELSE now
           queue == IF sleeps THEN PopOld(purged, after - rl.time_window)
                    ELSE purged
       IN  /\ rl.calls < MaxCalls
           /\ after <= MaxTime
           /\ rl' = [rl EXCEPT
                        !.calls = @ + 1,
                        !.requests[host] = Append(queue, after),
                        !.clock = after,
                        !.last = [host |-> host, t |-> after,
                                  waited |-> after - now,
                                  found |-> Len(purged)]]
    /\ UNCHANGED <<coreVars, cal, inv, pg, lm>>

NextLimiter == Tick \/ \E host \in Hosts : WaitIfNeeded(host)

SpecLimiter == LimiterInit /\ [][NextLimiter]_vars

(***************************************************************************)
(* C24: the per-host limit                                                 *)
(***************************************************************************)
\* the requests of the host recorded with a timestamp in [from, to]
RecordedIn(host, from, to) ==
    Cardinality({i \in 1..Len(rl.requests[host]) :
                    from <= rl.requests[host][i] /\ rl.requests[host][i] <= to})

\* C24: when a request of a host is recorded at time t, at most
\* max_requests requests of that host, the new one included, carry a
\* timestamp in [t - time_window, t]; a call waits only when its own host
\* has max_requests requests in the window
C24_LimitEnforced ==
    (rl.made /\ rl.last # NoRequest) =>
        /\ RecordedIn(rl.last.host, rl.last.t - rl.time_window, rl.last.t)
               <= rl.max_requests
        /\ rl.last.waited > 0 => rl.last.found >= rl.max_requests

(***************************************************************************)
(* C25: a cached summary is not generated again                            *)
(***************************************************************************)
\* the requests made to the model so far, over all runs
ModelCalls == 1..Len(hist.model_calls)

\* the request gave a summary that a later run takes from the cache
GaveSummary(c) ==
    ~hist.model_calls[c].raised /\ hist.model_calls[c].summary # <<>>

\* the items of the run already summarized under a non-empty block_id
SummarizedById ==
    {i \in Summarized : Get(rn.items[i], "block_id", <<>>) # <<>>}

\* the item carries what the cache holds under its block_id
CarriesCached(item) ==
    LET cached == _load_summary_from_cache(summary_cache, item.block_id)
    IN  /\ DictHas(summary_cache, sanitize_cache_filename(item.block_id))
        /\ item.summary = cached.summary
        /\ cached.title # <<>> => item.title = cached.title
        /\ IF "event_info" \in DOMAIN cached /\ cached.event_info # <<>>
           THEN /\ "event_info" \in DOMAIN item
                /\ item.event_info = cached.event_info
           ELSE "event_info" \notin DOMAIN item

\* C25 as stated: over all runs the model is asked at most once for each
\* non-empty block_id
C25_ModelCalledOnce ==
    \A c, d \in ModelCalls :
        (c < d /\ hist.model_calls[c].block_id # <<>>)
            => hist.model_calls[d].block_id # hist.model_calls[c].block_id

\* C25: once a request for a non-empty block_id has given a non-empty
\* summary the model is never asked for that block_id again; every item
\* summarized under a block_id carries the values the cache holds for it,
\* whether they were loaded or just generated; and a step that asks the
\* model nothing leaves the summary cache unchanged
C25_NoRegeneration ==
    /\ [](\A c, d \in ModelCalls :
             (c < d /\ hist.model_calls[c].block_id # <<>> /\ GaveSummary(c))
                 => hist.model_calls[d].block_id
                        # hist.model_calls[c].block_id)
    /\ [](\A i \in SummarizedById : CarriesCached(rn.items[i]))
    /\ [][hist'.model_calls = hist.model_calls
             => summary_cache' = summary_cache]_vars

\* a second run has taken a summary from the cache that the first run
\* generated
C25_Witness ==
    /\ rn.n = 2
    /\ \E i \in SummarizedById :
          /\ sanitize_cache_filename(rn.items[i].block_id)
                 \in {rn.sreads[k] : k \in 1..Len(rn.sreads)}
          /\ sanitize_cache_filename(rn.items[i].block_id)
                 \notin {rn.swrites[k] : k \in 1..Len(rn.swrites)}
          /\ \E c \in ModelCalls :
                /\ hist.model_calls[c].block_id = rn.items[i].block_id
                /\ GaveSummary(c)

(***************************************************************************)
(* C26: summarization fails hard                                           *)
(***************************************************************************)
\* the step asks the model and the request, or the parsing of its answer,
\* raises
GenerationRaises ==
    /\ Len(hist'.model_calls) = Len(hist.model_calls) + 1
    /\ hist'.model_calls[Len(hist'.model_calls)].raised

\* the summary files written by the run so far are in the cache
RunWritesCached ==
    \A k \in 1..Len(rn.swrites) : DictHas(summary_cache, rn.swrites[k])

\* C26: the step in which generating a summary raises ends summarize_items
\* with items left unsummarized and ends process_school with exit code 1,
\* no JSON and no RSS output written, the summary cache as it was with the
\* entries written earlier in the run; and a run with exit code 1 has
\* written no output
C26_FailsHard ==
    /\ [][GenerationRaises =>
             /\ rn'.pc = "done"
             /\ rn'.exit = 1
             /\ rn'.json = None /\ rn'.rss = None
             /\ rn'.items = rn.items
             /\ Cardinality(Summarized') < Len(rn'.items)
             /\ summary_cache' = summary_cache
             /\ rn'.swrites = rn.swrites
             /\ RunWritesCached']_vars
    /\ [](rn.exit = 1 => (rn.json = None /\ rn.rss = None /\ RunWritesCached))

\* the summary of the second item raised after the first one was generated
\* and saved
C26_Witness ==
    /\ rn.pc = "done"
    /\ rn.exit = 1
    /\ Len(rn.swrites) >= 1
    /\ Cardinality(Summarized) >= 1
    /\ hist.model_calls # <<>>
    /\ hist.model_calls[Len(hist.model_calls)].raised

(***************************************************************************)
(* C27: clean_title applied to its own result                              *)
(***************************************************************************)
\* C27: cleaning a cleaned title again does not change it
C27_CleanTitleIdempotent ==
    tc.done => clean_title(tc.result) = tc.result

(***************************************************************************)
(* C28: the key of an item without block_id                                *)
(***************************************************************************)
\* the items given to deduplicate_items that have no block_id
WithoutBlockId == {i \in 1..Len(items) : Get(items[i], "block_id", <<>>) = <<>>}

\* C28: two items without block_id that _hash_item gives the same key have
\* the same title and the same sequence of fragment texts
C28_FallbackKeyFaithful ==
    \A i, j \in WithoutBlockId :
        _hash_item(items[i]) = _hash_item(items[j])
            => /\ Get(items[i], "title", <<>>) = Get(items[j], "title", <<>>)
               /\ FragmentTexts(Get(items[i], "blocks", <<>>))
                      = FragmentTexts(Get(items[j], "blocks", <<>>))

(***************************************************************************)
(* get_newsletter_links (scraper.py) as its pagination loop: every request *)
(* is answered with some page of the blog, an error or no entries          *)
(***************************************************************************)
MaxPageWrappers == 2

\* the divBlogWrapper elements the blog has: the entries of Wrappers and
\* one whose title link has no href
PageWrappers ==
    Wrappers \cup {[entry_url |-> <<>>, smore |-> None,
                    title |-> <<"G", "o">>, date |-> 5]}

\* scraper.py 132-155: the entry appended for a wrapper
LinkOf(w, cached_urls) ==
    SetField(EntryOf(w, cached_urls), "entry_url", w.entry_url)

\* an entry_url seen on an earlier page is listed again
RECURSIVE PageEntries_KeepsSeen(_, _, _)
PageEntries_KeepsSeen(wrappers, seen_urls, cached_urls) ==
    IF wrappers = <<>> THEN <<>>
    ELSE LET w == Head(wrappers)
         IN  IF w.entry_url = <<>>
             THEN PageEntries_KeepsSeen(Tail(wrappers), seen_urls, cached_urls)
             ELSE <<LinkOf(w, cached_urls)>>
                  \o PageEntries_KeepsSeen(Tail(wrappers), seen_urls,
                                           cached_urls)

\* scraper.py 105-155: page_entries of one page; a wrapper without
\* entry_url or with an entry_url seen before is skipped
RECURSIVE PageEntries(_, _, _)
PageEntries(wrappers, seen_urls, cached_urls) ==
    IF wrappers = <<>> THEN <<>>
    ELSE LET w == Head(wrappers)
         IN  IF w.entry_url = <<>> \/ w.entry_url \in seen_urls
             THEN PageEntries(Tail(wrappers), seen_urls, cached_urls)
             ELSE <<LinkOf(w, cached_urls)>>
                  \o PageEntries(Tail(wrappers),
                                 seen_urls \cup {w.entry_url}, cached_urls)

\* the urls with a file in cache/newsletters when the call is made
CachedSets == {{}, {SmoreUrl}, {SmoreUrl, SmoreUrl2, EntryUrl("3")}}

\* scraper.py 72-74: get_newsletter_links(blog_url, stop_at_cached) starts
LinksInit ==
    /\ ParseInit
    /\ DedupIdle
    /\ FilterIdle
    /\ TitleIdle
    /\ EventIdle
    /\ RunIdle
    /\ CalendarIdle
    /\ InvalidatorIdle
    /\ LimiterIdle
    /\ LimitIdle
    /\ \E stop_at_cached \in BOOLEAN, cached_urls \in CachedSets :
          pg = [pc |-> "loop", stop_at_cached |-> stop_at_cached,
                cached_urls |-> cached_urls, page_num |-> 1,
                entries_data |-> <<>>, seen_urls |-> {},
                next_link |-> FALSE]

\* scraper.py 86-91: the request of the page fails, the loop is left
RequestFails ==
    /\ pg.pc = "loop"
    /\ pg' = [pg EXCEPT !.pc = "done"]
    /\ UNCHANGED <<coreVars, cal, inv, rl, lm>>

\* scraper.py 76-183: one iteration of `while True` on the page the blog
\* answers with
ScrapePage ==
    /\ pg.pc = "loop"
    /\ \E blog_wrappers \in SeqsUpTo(PageWrappers, MaxPageWrappers),
          next_link \in BOOLEAN :
          \E page_entries \in {PageEntries(blog_wrappers, pg.seen_urls,
                                           pg.cached_urls)} :
             LET found_new_entry ==
                     \E k \in 1..Len(page_entries) : ~page_entries[k].cached
                 leaves ==
                     \/ blog_wrappers = <<>>
                     \/ page_entries = <<>>
                     \/ pg.stop_at_cached /\ ~found_new_entry
                     \/ ~next_link
             IN  pg' = [pg EXCEPT
                          !.pc = IF leaves THEN "done" ELSE "loop",
                          !.seen_urls =
                              @ \cup {page_entries[k].entry_url :
                                          k \in 1..Len(page_entries)},
                          !.entries_data = @ \o page_entries,
                          !.page_num = IF leaves THEN @ ELSE @ + 1,
                          !.next_link = next_link]
    /\ UNCHANGED <<coreVars, cal, inv, rl, lm>>

NextLinks == RequestFails \/ ScrapePage

\* the loop keeps running: every request returns or times out
SpecLinks == LinksInit /\ [][NextLinks]_vars /\ WF_vars(NextLinks)

(***************************************************************************)
(* C29: pagination ends and lists no entry twice                           *)
(***************************************************************************)
\* C29: get_newsletter_links returns, whatever pages the blog answers with
\* and even when each of them has a next-page link and stop_at_cached is
\* false; an iteration that adds no new entry URL is the last one; and no
\* entry_url is twice in entries_data
C29_LinksTerminate ==
    /\ <>(pg.pc = "done")
    /\ [][pg'.seen_urls = pg.seen_urls => pg'.pc = "done"]_vars
    /\ [](\A i, j \in 1..Len(pg.entries_data) :
             pg.entries_data[i].entry_url = pg.entries_data[j].entry_url
                 => i = j)

\* the call returned on its fourth page, which like the pages before it had
\* a next-page link and was not stopped for being cached
C29_Witness ==
    /\ pg.pc = "done"
    /\ ~pg.stop_at_cached
    /\ pg.page_num >= 4
    /\ pg.next_link
    /\ Len(pg.entries_data) >= 3

(***************************************************************************)
(* the limit of process_school on the items left by the cross-post filter  *)
(***************************************************************************)
MaxRemaining == 3

\* items of three newsletters and one without a date
LimitItems ==
    {[block_id |-> <<"b1">>, title |-> <<"A">>, date |-> 5],
     [block_id |-> <<"b2">>, title |-> <<"B">>, date |-> 9],
     [block_id |-> <<"b3">>, title |-> <<"C">>, date |-> 9],
     [block_id |-> <<"b4">>, title |-> <<"D">>, date |-> NoDate]}

\* the values of --limit (type=int) and None
LimitValues == {NoLimit, <<-1>>, <<0>>, <<1>>, <<2>>, <<3>>}

\* the lists deduplicate_items can give: no item twice
RemainingLists ==
    {its \in SeqsUpTo(LimitItems, MaxRemaining) :
        \A i, j \in 1..Len(its) : its[i] = its[j] => i = j}

LimitInit ==
    /\ ParseInit
    /\ DedupIdle
    /\ FilterIdle
    /\ TitleIdle
    /\ EventIdle
    /\ RunIdle
    /\ CalendarIdle
    /\ InvalidatorIdle
    /\ LimiterIdle
    /\ LinksIdle
    /\ \E remaining \in RemainingLists \ {<<>>}, limit \in LimitValues :
          lm = [done |-> FALSE, remaining |-> remaining, limit |-> limit,
                kept |-> <<>>]

\* main.py 142-150: the items handed to summarize_items
ApplyTheLimit ==
    /\ ~lm.done
    /\ lm' = [lm EXCEPT !.done = TRUE,
                        !.kept = ApplyLimit(lm.remaining, lm.limit)]
    /\ UNCHANGED <<coreVars, cal, inv, rl, pg>>

NextLimit == ApplyTheLimit

SpecLimit == LimitInit /\ [][NextLimit]_vars

(***************************************************************************)
(* C30: the most recent `limit` items are kept                             *)
(***************************************************************************)
\* item a is dated later than item b; an item without a date is older than
\* every dated item
Later(a, b) == a.date # NoDate /\ (b.date = NoDate \/ a.date > b.date)

\* the items of lm.remaining that are not in lm.kept
Dropped ==
    {lm.remaining[i] : i \in 1..Len(lm.remaining)}
        \ {lm.kept[k] : k \in 1..Len(lm.kept)}

\* C30: with a limit and more than `limit` items remaining exactly `limit`
\* of them are kept, none of the dropped ones dated later than a kept one;
\* otherwise all items are kept
C30_LimitKeepsMostRecent ==
    lm.done =>
        IF lm.limit # NoLimit /\ Len(lm.remaining) > lm.limit[1]
        THEN /\ Len(lm.kept) = lm.limit[1]
             /\ {lm.kept[k] : k \in 1..Len(lm.kept)}
                    \subseteq {lm.remaining[i] : i \in 1..Len(lm.remaining)}
             /\ \A d \in Dropped : \A k \in 1..Len(lm.kept) :
                    ~Later(d, lm.kept[k])
        ELSE lm.kept = lm.remaining

====
